---- MODULE Spec2Model ----
(***************************************************************************)
(* Volume_Simulation: a 2-D airspace simulation.  Aircraft are generated   *)
(* on routes of waypoints, fly a constant heading, and are terminated on   *)
(* arrival (1), on leaving the world or the corridor (2) or on a loss of   *)
(* separation (3).                                                         *)
(*                                                                         *)
(* Numbers.  The program computes in floating-point metres.  The model     *)
(* keeps every coordinate as an integer number of 1/Q metre, Q = 60, the   *)
(* divisor of the speed conversion in Aircraft.__init__, so that the       *)
(* per-tick displacement min(45, spd)/scale/60/scale is an integer.        *)
(* Rounded distances (round(d, 3)) are integers in millimetres.            *)
(* Comparisons of products are made on exact multi-limb naturals, because  *)
(* the model checker's integers are 32 bits wide.                          *)
(***************************************************************************)
EXTENDS Integers, Sequences, FiniteSets, TLC

(***************************************************************************)
(* Exact arithmetic on naturals of any size: little-endian limbs.          *)
(***************************************************************************)
Limb == 10 ^ 4

Abs(n) == IF n < 0 THEN 0 - n ELSE n

Sign(n) == IF n < 0 THEN 0 - 1 ELSE IF n = 0 THEN 0 ELSE 1

Min2(a, b) == IF a <= b THEN a ELSE b

Max2(a, b) == IF a >= b THEN a ELSE b

RECURSIVE BigOf(_)
BigOf(n) == IF n = 0 THEN << >> ELSE <<n % Limb>> \o BigOf(n \div Limb)

RECURSIVE BigCarry(_, _)
BigCarry(a, c) ==
    IF a = << >> THEN BigOf(c)
    ELSE <<(Head(a) + c) % Limb>> \o BigCarry(Tail(a), (Head(a) + c) \div Limb)

RECURSIVE BigAdd(_, _)
BigAdd(a, b) ==
    IF a = << >> THEN b
    ELSE IF b = << >> THEN a
    ELSE <<(Head(a) + Head(b)) % Limb>>
         \o BigCarry(BigAdd(Tail(a), Tail(b)), (Head(a) + Head(b)) \div Limb)

\* a times one limb k (0 <= k < Limb), with carry c
RECURSIVE BigMulLimb(_, _, _)
BigMulLimb(a, k, c) ==
    IF a = << >> THEN BigOf(c)
    ELSE <<(Head(a) * k + c) % Limb>> \o BigMulLimb(Tail(a), k, (Head(a) * k + c) \div Limb)

RECURSIVE BigMul(_, _)
BigMul(a, b) ==
    IF b = << >> \/ a = << >> THEN << >>
    ELSE BigAdd(BigMulLimb(a, Head(b), 0), <<0>> \o BigMul(a, Tail(b)))

RECURSIVE BigTrim(_)
BigTrim(a) ==
    IF a = << >> THEN a
    ELSE IF a[Len(a)] = 0 THEN BigTrim(SubSeq(a, 1, Len(a) - 1)) ELSE a

RECURSIVE BigLessT(_, _)
BigLessT(a, b) ==   \* a < b, both trimmed
    IF Len(a) # Len(b) THEN Len(a) < Len(b)
    ELSE IF a = << >> THEN FALSE
    ELSE IF a[Len(a)] # b[Len(b)] THEN a[Len(a)] < b[Len(b)]
    ELSE BigLessT(SubSeq(a, 1, Len(a) - 1), SubSeq(b, 1, Len(b) - 1))

BigLess(a, b) == BigLessT(BigTrim(a), BigTrim(b))

BigLeq(a, b) == ~BigLess(b, a)

\* the product of the naturals of a sequence
RECURSIVE BigProd(_)
BigProd(s) == IF s = << >> THEN <<1>> ELSE BigMul(BigOf(Head(s)), BigProd(Tail(s)))

\* the sign of a product of integers, and its magnitude
RECURSIVE SignProd(_)
SignProd(s) == IF s = << >> THEN 1 ELSE Sign(Head(s)) * SignProd(Tail(s))

MagProd(s) == BigProd([i \in 1..Len(s) |-> Abs(s[i])])

\* x <= y for x = ss * ms and y = st * mt (signs and magnitudes)
SignedLeq(ss, ms, st, mt) ==
    IF ss # st THEN ss < st
    ELSE IF ss = 0 THEN TRUE
    ELSE IF ss = 1 THEN BigLeq(ms, mt)
    ELSE BigLeq(mt, ms)

\* product of the integers of s  <=  product of the integers of t
ProdLeq(s, t) == SignedLeq(SignProd(s), MagProd(s), SignProd(t), MagProd(t))

ProdLess(s, t) == ~ProdLeq(t, s)

(***************************************************************************)
(* Geometry: src/utility/util.py, src/Geography/point.py, waypoint.py      *)
(***************************************************************************)
\* position resolution: units per metre (the /60 of the speed conversion)
Q == 60

Pt(x, y) == [x |-> x, y |-> y]

\* (p2.x-p1.x)**2 + (p2.y-p1.y)**2, exact
SqDist(p1, p2) ==
    BigAdd(MagProd(<<p2.x - p1.x, p2.x - p1.x>>), MagProd(<<p2.y - p1.y, p2.y - p1.y>>))

\* round(sqrt(n)/Q metres, 3) in millimetres, n an exact natural: the largest k in
\* lo..hi with (k - 1/2) mm <= sqrt(n)/Q m, by bisection (lo at most the distance,
\* hi at least the distance plus a half)
SqrtFits(n, k) ==
    k = 0 \/ BigLeq(MagProd(<<(2 * k - 1) * Q, (2 * k - 1) * Q>>), BigMul(BigOf(4000000), n))

RECURSIVE RoundSqrtMm(_, _, _)
RoundSqrtMm(n, lo, hi) ==
    IF lo >= hi THEN lo
    ELSE IF SqrtFits(n, (lo + hi + 1) \div 2)
         THEN RoundSqrtMm(n, (lo + hi + 1) \div 2, hi)
         ELSE RoundSqrtMm(n, lo, (lo + hi + 1) \div 2 - 1)

\* round(get_dist(p1, p2), 3), in millimetres; the distance lies between the larger
\* of |dx|, |dy| and their sum
get_dist_mm(p1, p2) ==
    RoundSqrtMm(SqDist(p1, p2),
                (Max2(Abs(p2.x - p1.x), Abs(p2.y - p1.y)) * 1000) \div Q,
                ((Abs(p2.x - p1.x) + Abs(p2.y - p1.y)) * 1000) \div Q + 1)

\* degrees(atan2(x, y)) for the axis-aligned and the diagonal vectors (the other
\* bearings are not integers and are outside the model's scenarios)
Atan2Deg(x, y) ==
    CASE x = 0 /\ y >= 0 -> 0
      [] x > 0 /\ y = 0 -> 90
      [] x = 0 /\ y < 0 -> 180
      [] x < 0 /\ y = 0 -> 0 - 90
      [] x > 0 /\ y = x -> 45
      [] x > 0 /\ y = 0 - x -> 135
      [] x < 0 /\ y = 0 - x -> 0 - 45
      [] x < 0 /\ y = x -> 0 - 135

get_heading(p1, p2) == ((Atan2Deg(p2.x - p1.x, p2.y - p1.y) + 180) * (0 - 1)) % 360

\* cos and sin of pi/2 - radians(h), h a multiple of 90 in 0..359
CosSim(h) == CASE h = 0 -> 0 [] h = 90 -> 1 [] h = 180 -> 0 [] h = 270 -> 0 - 1

SinSim(h) == CASE h = 0 -> 1 [] h = 90 -> 0 [] h = 180 -> 0 - 1 [] h = 270 -> 0

\* Point.update(h, d) with h = pi/2 - radians(hdg)
PointUpdate(p, hdg, d) == Pt(p.x + d * CosSim(hdg), p.y + d * SinSim(hdg))

\* the sentinel 9e10 of dist_to_line, the division by zero, or |cross|/sqrt(det)
\* (far: the distance is at most |p3 - p1|, a bound for the rounding's search)
dist_to_line(p1, p2, p3) ==
    LET dx == p2.x - p1.x
        dy == p2.y - p1.y
        det == dx * dx + dy * dy
        num == dy * (p3.y - p1.y) + dx * (p3.x - p1.x)
        cross == dx * (p3.y - p1.y) - dy * (p3.x - p1.x)
        min_x == Min2(p1.x, p2.x)
        max_x == Max2(p1.x, p2.x)
        min_y == Min2(p1.y, p2.y)
        max_y == Max2(p1.y, p2.y)
        \* min_x <= x1 + (num/det)*dx <= max_x, and the same for y
        x_in == /\ ProdLeq(<<min_x - p1.x, det>>, <<num, dx>>)
                /\ ProdLeq(<<num, dx>>, <<max_x - p1.x, det>>)
        y_in == /\ ProdLeq(<<min_y - p1.y, det>>, <<num, dy>>)
                /\ ProdLeq(<<num, dy>>, <<max_y - p1.y, det>>)
    IN  IF det = 0 THEN [kind |-> "ZeroDivisionError"]
        ELSE IF ~x_in \/ ~y_in THEN [kind |-> "invalid"]
        ELSE [kind |-> "dist", cross |-> Abs(cross), det |-> det,
              far |-> Abs(p3.x - p1.x) + Abs(p3.y - p1.y)]

\* (k - 1/2) mm <= |cross|/sqrt(det)/Q m
LineDistFits(d, k) ==
    k = 0 \/ ProdLeq(<<(2 * k - 1) * Q, (2 * k - 1) * Q, d.det>>,
                     <<2000, 2000, d.cross, d.cross>>)

\* the largest k in lo..hi with LineDistFits(d, k), by bisection
RECURSIVE RoundLineMm(_, _, _)
RoundLineMm(d, lo, hi) ==
    IF lo >= hi THEN lo
    ELSE IF LineDistFits(d, (lo + hi + 1) \div 2)
         THEN RoundLineMm(d, (lo + hi + 1) \div 2, hi)
         ELSE RoundLineMm(d, lo, (lo + hi + 1) \div 2 - 1)

\* round(d, 3) of a dist_to_line result, in millimetres (the sentinel stays itself)
RoundDist(d) ==
    IF d.kind # "dist" THEN d
    ELSE IF d.cross = 0 THEN [kind |-> "mm", mm |-> 0]
    ELSE [kind |-> "mm", mm |-> RoundLineMm(d, 0, (d.far * 1000) \div Q + 1)]

\* distance < max_dist, max_dist in metres; 9e10 is above every max_dist
DistLess(d, max_dist) == d.kind = "mm" /\ d.mm < max_dist * 1000

\* Waypoint defaults
x_pad == 25

y_pad == 50

\* Waypoint.bounds, as the rectangle's two corners
WaypointBounds(w) ==
    [lo |-> Pt(w.x - x_pad * Q, w.y - y_pad * Q), hi |-> Pt(w.x + x_pad * Q, w.y + y_pad * Q)]

\* in_bound(bounds, pos): shapely's Polygon.contains, true of interior points only
in_bound(b, pos) ==
    /\ b.lo.x < pos.x /\ pos.x < b.hi.x
    /\ b.lo.y < pos.y /\ pos.y < b.hi.y

has_reached(w, apos) == in_bound(WaypointBounds(w), apos)

(***************************************************************************)
(* Route: src/Geography/route.py.  A route holds waypoint names; W is the  *)
(* table of the Waypoint objects the names refer to.                       *)
(***************************************************************************)
\* Route.update's defaults
max_dist == 25

\* an initialisation that leaves the second waypoint in the queue
init_route_keeping_second(W, route) ==
    [route |-> SubSeq(route, 2, Len(route)),
     start |-> route[1],
     next_waypoint |-> route[2],
     previous_waypoint |-> route[1],
     init_heading |-> get_heading(W[route[1]], W[route[2]])]

\* Route.init_route(route): the cursor fields, from the ordered sequence
init_route(W, route) ==
    [route |-> SubSeq(route, 3, Len(route)),
     start |-> route[1],
     next_waypoint |-> route[2],
     previous_waypoint |-> route[1],
     init_heading |-> get_heading(W[route[1]], W[route[2]])]

\* Route(_id, route): the new Route, or the exception
RouteNew(W, id, route) ==
    IF Len(route) < 2 THEN [kind |-> "Exception"]
    ELSE [kind |-> "Route", _id |-> id, origional_route |-> route] @@ init_route(W, route)

\* a copy that keeps the cursor of the source
RouteCopyOfCursor(W, r) == r

\* Route.copy()
RouteCopy(W, r) == RouteNew(W, r._id, r.origional_route)

\* a copy that hands back the source object itself
RouteCopySelf(W, heap, ref) == [heap |-> heap, ref |-> ref]

\* Route.copy() on the object ref of a heap of Route objects: Route(...) constructs
\* a new object; [heap, ref] are the heap afterwards and the object returned
RouteCopyObject(W, heap, ref) ==
    [heap |-> Append(heap, RouteCopy(W, heap[ref])), ref |-> Len(heap) + 1]

\* Route.get_in_bound(pos, max_dist, acc = 3): the bare True when max_dist = -1, the
\* pair (bool, distance) otherwise, or dist_to_line's ZeroDivisionError
InBoundOf(distance, md) ==
    IF distance.kind = "ZeroDivisionError" THEN distance
    ELSE [kind |-> "tuple", ok |-> DistLess(distance, md), distance |-> distance]

get_in_bound(W, r, pos, md) ==
    IF md = 0 - 1 THEN [kind |-> "bool", ok |-> TRUE]
    ELSE InBoundOf(RoundDist(dist_to_line(W[r.previous_waypoint], W[r.next_waypoint], pos)),
                   md)

\* Route.update(ac_pos, max_dist = md): [ret, route]; ret is 0, 1, 2 or -1 for an
\* exception that leaves update (ZeroDivisionError, or the TypeError of True[0])
\* lines 142-148, r2 the route after the waypoint test: the deviation test
UpdateDeviation(r2, inb) ==
    [ret |-> IF inb.kind = "bool" THEN 0 - 1 ELSE IF ~inb.ok THEN 2 ELSE 0, route |-> r2]

\* line 142: self.next_waypoint = self.route.get()
UpdateAdvance(r) == [r EXCEPT !.next_waypoint = Head(r.route), !.route = Tail(r.route)]

\* lines 138-148, with the values of lines 135-136 and of has_reached
UpdateDecide(r, inb, reached) ==
    IF inb.kind = "ZeroDivisionError" THEN [ret |-> 0 - 1, route |-> r]
    ELSE IF reached /\ Len(r.route) <= 0 THEN [ret |-> 1, route |-> r]
    ELSE UpdateDeviation(IF reached THEN UpdateAdvance(r) ELSE r, inb)

RouteUpdate(W, r, ac_pos, md) ==
    UpdateDecide(r, get_in_bound(W, r, ac_pos, md), has_reached(W[r.next_waypoint], ac_pos))

(***************************************************************************)
(* Aircraft: src/simulation/aircraft.py                                    *)
(***************************************************************************)
point_constant == 18

max_speed == 45

NoRoute == [kind |-> "None"]

\* Aircraft(_id, start_pos, spd, alt, heading, scale, route); serial stands for the
\* identity of the Python object.  spd is the displacement per tick in 1/Q metre.
AircraftNew(id, start_pos, spd, alt, heading, scale, route, serial) ==
    [_id |-> id,
     position |-> Pt(start_pos.x, start_pos.y),
     spd |-> ((Min2(max_speed, spd) * Q) \div scale) \div 60,
     tas |-> spd,
     alt |-> alt,
     heading |-> (heading * (0 - 1)) % 360,
     scale |-> scale,
     route |-> route,
     path |-> << >>,
     updater |-> 0,
     terminated |-> 0,
     serial |-> serial]

\* Aircraft.update_position()
update_position(ac) ==
    LET hdg == (ac.heading - 180) % 360
        sim_speed == ac.spd \div ac.scale
    IN  [ac EXCEPT !.position = PointUpdate(ac.position, hdg, sim_speed)]

\* Aircraft.in_world(bounds), bounds in metres
in_world(ac, bounds) ==
    /\ 0 <= ac.position.x /\ ac.position.x <= bounds[1] * Q
    /\ 0 <= ac.position.y /\ ac.position.y <= bounds[2] * Q

\* a world test that does not look at the code the route gave
StepWorldOverriding(a, bounds) ==
    [ac |-> [a EXCEPT !.terminated = IF ~in_world(a, bounds) THEN 2 ELSE a.terminated,
                      !.updater = a.updater + 1],
     raised |-> FALSE]

\* Aircraft.step(bounds): [ac, raised]; raised when route.update raises, which
\* leaves step after the move, the path sample and the reset of terminated
\* lines 163-166: the world test and the count of updates
StepWorld(a, bounds) ==
    [ac |-> [a EXCEPT !.terminated = IF a.terminated = 0 /\ ~in_world(a, bounds)
                                     THEN 2 ELSE a.terminated,
                      !.updater = a.updater + 1],
     raised |-> FALSE]

\* line 161 with u the outcome of route.update
StepRouted(a, u, bounds) ==
    IF u.ret = 0 - 1 THEN [ac |-> [a EXCEPT !.route = u.route], raised |-> TRUE]
    ELSE StepWorld([a EXCEPT !.terminated = u.ret, !.route = u.route], bounds)

\* a path sample taken when the count of updates after this step is a multiple of
\* the cadence
StepSampleCountingThisStep(a) ==
    [a EXCEPT !.path = IF ((a.updater + 1) % point_constant) * a.scale = 0
                       THEN Append(a.path, a.position) ELSE a.path,
              !.terminated = 0]

\* lines 154-158, a the aircraft after update_position: the path sample and
\* self.terminated = 0
StepSample(a) ==
    [a EXCEPT !.path = IF (a.updater % point_constant) * a.scale = 0
                       THEN Append(a.path, a.position) ELSE a.path,
              !.terminated = 0]

\* lines 160-166
StepRoute(W, a, bounds) ==
    IF a.route = NoRoute THEN StepWorld(a, bounds)
    ELSE StepRouted(a, RouteUpdate(W, a.route, a.position, max_dist), bounds)

AircraftStep(W, ac0, bounds) == StepRoute(W, StepSample(update_position(ac0)), bounds)

(***************************************************************************)
(* Environment: src/simulation/environment.py.  An OrderedDict is the      *)
(* sequence of its values in insertion order; each value carries its key   *)
(* in _id.                                                                 *)
(***************************************************************************)
min_sep == 25

\* d[key] = val: in place when the key is present, appended otherwise
DictSet(d, val) ==
    IF \E i \in 1..Len(d) : d[i]._id = val._id
    THEN [i \in 1..Len(d) |-> IF d[i]._id = val._id THEN val ELSE d[i]]
    ELSE Append(d, val)

Keys(d) == {d[i]._id : i \in 1..Len(d)}

\* a distance matrix filled above the diagonal only
get_distance_matrix_upper(acs) ==
    [p_i \in 1..Len(acs) |->
        [o_i \in 1..Len(acs) |->
            IF p_i >= o_i THEN 0 ELSE get_dist_mm(acs[p_i].position, acs[o_i].position)]]

\* Environment.get_distance_matrix(): millimetres, zero on the diagonal
get_distance_matrix(acs) ==
    [p_i \in 1..Len(acs) |->
        [o_i \in 1..Len(acs) |->
            IF p_i = o_i THEN 0 ELSE get_dist_mm(acs[p_i].position, acs[o_i].position)]]

RECURSIVE CollInner(_, _, _, _, _)
\* an inner loop that also flags a pair at exactly min_sep
CollInnerInclusive(acs, M, ms, i, j) ==
    IF j > Len(acs) THEN acs
    ELSE IF i = j \/ acs[j].terminated > 0 THEN CollInner(acs, M, ms, i, j + 1)
    ELSE IF M[i][j] <= ms * 1000
         THEN CollInner([acs EXCEPT ![i].terminated = 3, ![j].terminated = 3], M, ms, i, j + 1)
         ELSE CollInner(acs, M, ms, i, j + 1)

\* an inner loop that does not skip the columns of aircraft with a code
CollInnerAnyColumn(acs, M, ms, i, j) ==
    IF j > Len(acs) THEN acs
    ELSE IF i = j THEN CollInner(acs, M, ms, i, j + 1)
    ELSE IF M[i][j] < ms * 1000
         THEN CollInner([acs EXCEPT ![i].terminated = 3, ![j].terminated = 3], M, ms, i, j + 1)
         ELSE CollInner(acs, M, ms, i, j + 1)

\* the inner loop of check_collisions for row i, from column j on
CollInner(acs, M, ms, i, j) ==
    IF j > Len(acs) THEN acs
    ELSE IF i = j \/ acs[j].terminated > 0 THEN CollInner(acs, M, ms, i, j + 1)
    ELSE IF M[i][j] < ms * 1000
         THEN CollInner([acs EXCEPT ![i].terminated = 3, ![j].terminated = 3], M, ms, i, j + 1)
         ELSE CollInner(acs, M, ms, i, j + 1)

\* the outer loop of check_collisions, from row i on
RECURSIVE CollOuter(_, _, _, _)
CollOuter(acs, M, ms, i) ==
    IF i > Len(acs) THEN acs
    ELSE IF acs[i].terminated > 0 THEN CollOuter(acs, M, ms, i + 1)
    ELSE CollOuter(CollInner(acs, M, ms, i, 1), M, ms, i + 1)

\* Environment.check_collisions(dist_matrix, min_sep)
check_collisions(acs, M, ms) == CollOuter(acs, M, ms, 1)

\* Environment.update_active() from entry i on: [aircraft, terminated]
RECURSIVE UpdateActiveFrom(_, _, _, _)
UpdateActiveFrom(acs, new_active, term, i) ==
    IF i > Len(acs) THEN [aircraft |-> new_active, terminated |-> term]
    ELSE IF acs[i].terminated > 0
         THEN UpdateActiveFrom(acs, new_active, DictSet(term, acs[i]), i + 1)
         ELSE UpdateActiveFrom(acs, DictSet(new_active, acs[i]), term, i + 1)

\* a reconciliation that leaves the aircraft that arrived in the active mapping
update_active_above_one(acs, term) ==
    [aircraft |-> SelectSeq(acs, LAMBDA a : a.terminated <= 1),
     terminated |-> term \o SelectSeq(acs, LAMBDA a : a.terminated > 1)]

\* a reconciliation that records the terminated aircraft but leaves them active
update_active_keeping(acs, term) ==
    [aircraft |-> acs, terminated |-> UpdateActiveFrom(acs, << >>, term, 1).terminated]

update_active(acs, term) == UpdateActiveFrom(acs, << >>, term, 1)

\* the loop of Environment.step over the aircraft, from entry i on; it ends at the
\* first aircraft whose step raises
RECURSIVE StepAll(_, _, _, _)
RECURSIVE StepAllNext(_, _, _, _, _)
StepAll(W, acs, bounds, i) ==
    IF i > Len(acs) THEN [aircraft |-> acs, raised |-> FALSE]
    ELSE StepAllNext(W, acs, bounds, i, AircraftStep(W, acs[i], bounds))

\* r: the outcome of the step of aircraft i
StepAllNext(W, acs, bounds, i, r) ==
    IF r.raised THEN [aircraft |-> [acs EXCEPT ![i] = r.ac], raised |-> TRUE]
    ELSE StepAll(W, [acs EXCEPT ![i] = r.ac], bounds, i + 1)

\* the end of Environment.step, ua the outcome of update_active
EnvStepEnd(ua, dist_matrix, moved) ==
    [aircraft |-> ua.aircraft, terminated |-> ua.terminated, raised |-> FALSE,
     matrix |-> dist_matrix, moved |-> moved]

\* a step that decides the collisions on the distances after the movement
EnvStepMovedFirst(term, dist_matrix, st) ==
    IF st.raised
    THEN [aircraft |-> st.aircraft, terminated |-> term, raised |-> TRUE,
          matrix |-> dist_matrix, moved |-> st.aircraft]
    ELSE EnvStepEnd(update_active(check_collisions(st.aircraft,
                                                   get_distance_matrix(st.aircraft),
                                                   min_sep), term),
                    dist_matrix, st.aircraft)

\* lines 237-239, st the outcome of the movement loop
EnvStepMoved(term, dist_matrix, st) ==
    IF st.raised
    THEN [aircraft |-> st.aircraft, terminated |-> term, raised |-> TRUE,
          matrix |-> dist_matrix, moved |-> st.aircraft]
    ELSE EnvStepEnd(update_active(check_collisions(st.aircraft, dist_matrix, min_sep), term),
                    dist_matrix, st.aircraft)

\* Environment.step(): [aircraft, terminated, raised, matrix, moved]; matrix and
\* moved record the distance matrix and the aircraft after the movement loop
EnvStep(W, acs, term, bounds) ==
    EnvStepMoved(term, get_distance_matrix(acs), StepAll(W, acs, bounds, 1))

\* Environment.generate_ac(k, _id) with the drawn speed and altitude
generate_ac(W, rts, acs, k, id, spd, alt, scale, serial) ==
    DictSet(acs, AircraftNew(id, W[rts[k + 1].start], spd, alt, rts[k + 1].init_heading,
                             scale, RouteCopy(W, rts[k + 1]), serial))

\* get_is_finished() looking at running alone
get_is_finished_not_running(ran_, running_) == ~running_

\* Environment.get_is_finished()
get_is_finished(ran_, running_) ==
    IF ~ran_ THEN FALSE
    ELSE IF ran_ /\ ~running_ THEN TRUE
    ELSE FALSE

(***************************************************************************)
(* The scenario and the configuration of the Environment                   *)
(***************************************************************************)
\* length of the engine runs explored: Environment.step calls, Aircraft objects
MaxTicks == 4

MaxCreated == 3

\* world scale (VolumeSim.SCALE)
SCALE == 1

\* ticks per unit of the spawn timer (the fps parameter)
FPS == 2

\* the delay parameter, min_spd..max_spd, min_alt..max_alt, area (metres)
Delay == <<1, 2>>

SpdRange == 45 .. 45

AltRange == 100 .. 100

AREA == <<100, 100>>

\* the waypoints of the scenario file, in 1/Q metre: A-B runs east along y = 50 m,
\* C-D runs west along y = 74.9833 m, G lies east of C on that line; no route of
\* the file uses E, east of B, nor H and F: H is 0.75 m inside the east edge of the
\* world, and the region of F begins 0.5 m outside that edge
ScenarioWaypoints ==
    [A |-> Pt(30 * Q, 50 * Q), B |-> Pt(56 * Q + 36, 50 * Q),
     C |-> Pt(31 * Q, 74 * Q + 59), D |-> Pt(5 * Q, 74 * Q + 59),
     G |-> Pt(80 * Q, 74 * Q + 59), E |-> Pt(80 * Q, 50 * Q),
     H |-> Pt(99 * Q + 15, 50 * Q), F |-> Pt(125 * Q + 30, 50 * Q)]

\* the routes of the scenario file, in file order
ScenarioRoutes == << <<"A", "B">>, <<"C", "D", "G">> >>

\* load_json, lines 43-51: the Route objects of the file from entry i on; the
\* exception of a Route(...) leaves load_json
RECURSIVE LoadRoutes(_, _, _, _)
RECURSIVE LoadRouteNext(_, _, _, _, _)
LoadRoutes(W, rs, i, acc) ==
    IF i > Len(rs) THEN [kind |-> "loaded", waypoints |-> W, routes |-> acc]
    ELSE LoadRouteNext(W, rs, i, acc, RouteNew(W, i, rs[i]))

\* r: the outcome of Route(rte['_id'], route) for entry i
LoadRouteNext(W, rs, i, acc, r) ==
    IF r.kind = "Exception" THEN r ELSE LoadRoutes(W, rs, i + 1, Append(acc, r))

load_json(W, rs) == LoadRoutes(W, rs, 1, << >>)

\* self.delay = delay * scale: the list repeated scale times
RECURSIVE Repeat(_, _)
Repeat(l, n) == IF n <= 0 THEN << >> ELSE l \o Repeat(l, n - 1)

EnvDelay == Repeat(Delay, SCALE)

DelayChoices == {EnvDelay[i] : i \in 1..Len(EnvDelay)}

(***************************************************************************)
(* State                                                                   *)
(***************************************************************************)
VARIABLES
    waypoints,      \* objects['waypoints']: name -> position
    routes,         \* objects['routes'], in order
    aircraft,       \* objects['aircraft'], in order
    terminated,     \* objects['terminated'], in order
    running, ran,   \* Environment.running, Environment.ran
    pc,             \* where the thread of run is: idle, starting, loop, crashed
    max_aircraft,   \* run's parameter
    run_aircraft,   \* run's local aircraft
    run_step,       \* run's local step
    timer,          \* run's local timer
    next_ac,        \* run's local next_ac
    created,        \* number of Aircraft objects constructed so far
    ticks,          \* number of Environment.step calls so far
    last,           \* record of the most recent Environment.step call
    h               \* the call under study in the specifications of single functions

vars == <<waypoints, routes, aircraft, terminated, running, ran, pc, max_aircraft,
          run_aircraft, run_step, timer, next_ac, created, ticks, last, h>>

envVars == <<waypoints, routes, aircraft, terminated, running, ran, pc, max_aircraft,
             run_aircraft, run_step, timer, next_ac, created, ticks, last>>

NoStep == [pre |-> << >>, term_pre |-> << >>, matrix |-> << >>, moved |-> << >>,
           raised |-> FALSE]

\* Environment(area, ..., env_path)
EnvInit ==
    /\ waypoints = ScenarioWaypoints
    /\ routes = load_json(ScenarioWaypoints, ScenarioRoutes).routes
    /\ aircraft = << >>
    /\ terminated = << >>
    /\ running = FALSE
    /\ ran = FALSE
    /\ pc = "idle"
    /\ max_aircraft = 0
    /\ run_aircraft = 0
    /\ run_step = 0
    /\ timer = 0
    /\ next_ac = << >>
    /\ created = 0
    /\ ticks = 0
    /\ last = NoStep

Init == EnvInit /\ h = [op |-> "none"]

\* the effect of one Environment.step call on the state
StepEffect(acs, r) ==
    /\ aircraft' = r.aircraft
    /\ terminated' = r.terminated
    /\ ticks' = ticks + 1
    /\ last' = [pre |-> acs, term_pre |-> terminated,
                matrix |-> r.matrix, moved |-> r.moved, raised |-> r.raised]

DoStep(acs) == StepEffect(acs, EnvStep(waypoints, acs, terminated, AREA))

\* the start of run with no route forced to time 0 when the set drawn is empty
RunCallAnySet(m) ==
    /\ pc = "idle"
    /\ \E zero \in SUBSET (1..Len(routes)) :
       \E draw \in [1..Len(routes) -> DelayChoices] :
          next_ac' = [i \in 1..Len(routes) |-> IF i \in zero THEN 0 ELSE draw[i]]
    /\ max_aircraft' = m
    /\ run_aircraft' = 0
    /\ run_step' = 0
    /\ timer' = 0
    /\ ran' = TRUE
    /\ pc' = "starting"
    /\ UNCHANGED <<waypoints, routes, aircraft, terminated, running, created, ticks, last, h>>

\* run, lines 192-200: the locals, the draw of next_ac with a non-empty set of routes
\* forced to time 0, and ran = True
RunCall(m) ==
    /\ pc = "idle"
    /\ \E zero \in (SUBSET (1..Len(routes))) \ {{}} :
       \E draw \in [1..Len(routes) -> DelayChoices] :
          next_ac' = [i \in 1..Len(routes) |-> IF i \in zero THEN 0 ELSE draw[i]]
    /\ max_aircraft' = m
    /\ run_aircraft' = 0
    /\ run_step' = 0
    /\ timer' = 0
    /\ ran' = TRUE
    /\ pc' = "starting"
    /\ UNCHANGED <<waypoints, routes, aircraft, terminated, running, created, ticks, last, h>>

\* run, line 201: running = True
RunStart ==
    /\ pc = "starting"
    /\ running' = TRUE
    /\ pc' = "loop"
    /\ UNCHANGED <<waypoints, routes, aircraft, terminated, ran, max_aircraft, run_aircraft,
                   run_step, timer, next_ac, created, ticks, last, h>>

\* run, lines 209-213 with the new time of a route drawn one unit short
RECURSIVE SpawnLoopShort(_, _, _, _, _, _, _, _)
SpawnLoopShort(acs, nx, cnt, ser, i, spds, alts, ds) ==
    IF i > Len(nx) THEN [aircraft |-> acs, next_ac |-> nx, count |-> cnt, serial |-> ser]
    ELSE IF timer = nx[i]
         THEN SpawnLoopShort(generate_ac(waypoints, routes, acs, i - 1, cnt, spds[i],
                                         alts[i], SCALE, ser + 1),
                             [nx EXCEPT ![i] = nx[i] + ds[i] - 1], cnt + 1, ser + 1, i + 1,
                             spds, alts, ds)
         ELSE SpawnLoopShort(acs, nx, cnt, ser, i + 1, spds, alts, ds)

\* run, lines 209-213: the routes from i on whose time has come generate an aircraft
RECURSIVE SpawnLoop(_, _, _, _, _, _, _, _)
SpawnLoop(acs, nx, cnt, ser, i, spds, alts, ds) ==
    IF i > Len(nx) THEN [aircraft |-> acs, next_ac |-> nx, count |-> cnt, serial |-> ser]
    ELSE IF timer = nx[i]
         THEN SpawnLoop(generate_ac(waypoints, routes, acs, i - 1, cnt, spds[i], alts[i],
                                    SCALE, ser + 1),
                        [nx EXCEPT ![i] = nx[i] + ds[i]], cnt + 1, ser + 1, i + 1,
                        spds, alts, ds)
         ELSE SpawnLoop(acs, nx, cnt, ser, i + 1, spds, alts, ds)

\* run, line 203: the loop test fails and run returns; its locals are gone
RunReturn ==
    /\ pc = "loop"
    /\ ~running
    /\ pc' = "idle"
    /\ max_aircraft' = 0
    /\ run_aircraft' = 0
    /\ run_step' = 0
    /\ timer' = 0
    /\ next_ac' = << >>
    /\ UNCHANGED <<waypoints, routes, aircraft, terminated, running, ran, created, ticks,
                   last, h>>

\* run, lines 204-206: max_aircraft reached
RunStop ==
    /\ pc = "loop"
    /\ running
    /\ max_aircraft > 0 /\ run_aircraft = max_aircraft
    /\ running' = FALSE
    /\ UNCHANGED <<waypoints, routes, aircraft, terminated, ran, pc, max_aircraft,
                   run_aircraft, run_step, timer, next_ac, created, ticks, last, h>>

\* the end of a turn with a timer that counts the turns
TickEffectTimerPerTurn(sp) ==
    /\ DoStep(sp.aircraft)
    /\ next_ac' = sp.next_ac
    /\ run_aircraft' = sp.count
    /\ created' = sp.serial
    /\ IF last'.raised
       THEN pc' = "crashed" /\ UNCHANGED <<run_step, timer>>
       ELSE /\ pc' = pc
            /\ run_step' = (run_step + 1) % FPS
            /\ timer' = timer + 1

\* the outcome r of a step with the aircraft born made active after it
SpawnAfterStep(r, born) == [r EXCEPT !.aircraft = r.aircraft \o born]

\* the end of a turn that steps the aircraft of the turn before and only then
\* makes the aircraft generated in this turn active
TickEffectSpawnAfterStep(sp) ==
    /\ StepEffect(aircraft,
                  SpawnAfterStep(EnvStep(waypoints, aircraft, terminated, AREA),
                                 SelectSeq(sp.aircraft, LAMBDA a : a.serial > created)))
    /\ next_ac' = sp.next_ac
    /\ run_aircraft' = sp.count
    /\ created' = sp.serial
    /\ IF last'.raised
       THEN pc' = "crashed" /\ UNCHANGED <<run_step, timer>>
       ELSE /\ pc' = pc
            /\ run_step' = (run_step + 1) % FPS
            /\ timer' = IF (run_step + 1) % FPS = 0 THEN timer + 1 ELSE timer

\* the end of a turn that leaves out the step once the spawn loop has brought the
\* count to max_aircraft
TickEffectStoppingAtOnce(sp) ==
    IF max_aircraft > 0 /\ sp.count = max_aircraft
    THEN /\ aircraft' = sp.aircraft
         /\ next_ac' = sp.next_ac
         /\ run_aircraft' = sp.count
         /\ created' = sp.serial
         /\ UNCHANGED <<terminated, ticks, last, pc, run_step, timer>>
    ELSE /\ DoStep(sp.aircraft)
         /\ next_ac' = sp.next_ac
         /\ run_aircraft' = sp.count
         /\ created' = sp.serial
         /\ IF last'.raised
            THEN pc' = "crashed" /\ UNCHANGED <<run_step, timer>>
            ELSE /\ pc' = pc
                 /\ run_step' = (run_step + 1) % FPS
                 /\ timer' = IF (run_step + 1) % FPS = 0 THEN timer + 1 ELSE timer

\* run, lines 215-223, sp the outcome of the spawn loop; an exception of step
\* ends the thread of run
TickEffect(sp) ==
    /\ DoStep(sp.aircraft)
    /\ next_ac' = sp.next_ac
    /\ run_aircraft' = sp.count
    /\ created' = sp.serial
    /\ IF last'.raised
       THEN pc' = "crashed" /\ UNCHANGED <<run_step, timer>>
       ELSE /\ pc' = pc
            /\ run_step' = (run_step + 1) % FPS
            /\ timer' = IF (run_step + 1) % FPS = 0 THEN timer + 1 ELSE timer

\* run, lines 208-223: one iteration of the loop: spawn, step, count
RunTick ==
    /\ pc = "loop"
    /\ running
    /\ ~(max_aircraft > 0 /\ run_aircraft = max_aircraft)
    /\ ticks < MaxTicks
    /\ LET due == {i \in 1..Len(next_ac) : next_ac[i] = timer}
       IN  /\ created + Cardinality(due) <= MaxCreated
           /\ \E spds \in [due -> SpdRange], alts \in [due -> AltRange],
                 ds \in [due -> DelayChoices] :
                 TickEffect(SpawnLoop(aircraft, next_ac, run_aircraft, created, 1,
                                      spds, alts, ds))
    /\ UNCHANGED <<waypoints, routes, running, ran, max_aircraft, h>>

\* VolumeSim.main, line 61: another thread clears the flag
ExternalStop ==
    /\ running
    /\ running' = FALSE
    /\ UNCHANGED <<waypoints, routes, aircraft, terminated, ran, pc, max_aircraft,
                   run_aircraft, run_step, timer, next_ac, created, ticks, last, h>>

\* a direct call of Environment.step()
Step ==
    /\ pc = "idle"
    /\ ticks < MaxTicks
    /\ DoStep(aircraft)
    /\ UNCHANGED <<waypoints, routes, running, ran, pc, max_aircraft, run_aircraft,
                   run_step, timer, next_ac, created, h>>

\* a direct call of Environment.generate_ac(k, _id)
GenerateAc(k, id) ==
    /\ pc = "idle"
    /\ created < MaxCreated
    /\ \E spd \in SpdRange, alt \in AltRange :
          aircraft' = generate_ac(waypoints, routes, aircraft, k, id, spd, alt, SCALE,
                                  created + 1)
    /\ created' = created + 1
    /\ UNCHANGED <<waypoints, routes, terminated, running, ran, pc, max_aircraft,
                   run_aircraft, run_step, timer, next_ac, ticks, last, h>>

\* a direct call of Environment.update_active()
UpdateActive ==
    /\ pc = "idle"
    /\ \E ua \in {update_active(aircraft, terminated)} :
          aircraft' = ua.aircraft /\ terminated' = ua.terminated
    /\ UNCHANGED <<waypoints, routes, running, ran, pc, max_aircraft, run_aircraft,
                   run_step, timer, next_ac, created, ticks, last, h>>

\* the values of max_aircraft tried, and the identities direct callers pass
MaxAircraftChoices == 0 .. 2

IdChoices == {0}

Next ==
    \/ \E m \in MaxAircraftChoices : RunCall(m)
    \/ RunStart
    \/ RunReturn
    \/ RunStop
    \/ RunTick
    \/ ExternalStop
    \/ Step
    \/ \E k \in 0..(Len(routes) - 1), id \in IdChoices : GenerateAc(k, id)
    \/ UpdateActive

Spec == Init /\ [][Next]_vars

(***************************************************************************)
(* Properties of the Environment (specification Spec)                      *)
(***************************************************************************)
\* the termination codes now held by the Aircraft object with serial number s
FinalCodes(s) ==
    {aircraft[i].terminated : i \in {k \in 1..Len(aircraft) : aircraft[k].serial = s}}
    \cup {terminated[i].terminated :
            i \in {k \in 1..Len(terminated) : terminated[k].serial = s}}

Serials(d) == {d[i].serial : i \in 1..Len(d)}

\* C1: no identity is a key of both objects['aircraft'] and objects['terminated'];
\* as objects['terminated'] never loses a key, this also says that an identity
\* moved to the terminated mapping is never again a key of the active mapping
C1_IdentityInOneMapping == Keys(aircraft) \cap Keys(terminated) = {}

\* C3: every aircraft of the active mapping has termination code 0, so had every
\* aircraft the most recent Environment.step stepped and collision-checked, and none
\* of those was an object of the terminated mapping
C3_TerminatedNeverStepped ==
    /\ \A i \in 1..Len(aircraft) : aircraft[i].terminated = 0
    /\ \A i \in 1..Len(last.pre) :
          /\ last.pre[i].terminated = 0
          /\ last.pre[i].serial \notin Serials(last.term_pre)

\* a step took place while the terminated mapping held aircraft, one of them under
\* an identity that was active again
C3_Witness ==
    /\ last.pre # << >>
    /\ last.term_pre # << >>
    /\ Keys(last.pre) \cap Keys(last.term_pre) # {}

\* C7: the collisions of a step are decided on the distances at the start of the
\* tick: an aircraft that was at least min_sep from every other at the start is not
\* flagged whatever the distances after the movement, and of a pair closer than
\* min_sep at the start that survived the movement at least one is flagged (both, when
\* they are the only aircraft) whatever their distance after the movement
C7_StartOfTickDistances ==
    ~last.raised =>
        \A i \in 1..Len(last.pre) :
            /\ (\A j \in 1..Len(last.pre) : j # i => last.matrix[i][j] >= min_sep * 1000)
                  => 3 \notin FinalCodes(last.pre[i].serial)
            /\ \A j \in 1..Len(last.pre) :
                  (/\ j # i
                   /\ last.matrix[i][j] < min_sep * 1000
                   /\ last.moved[i].terminated = 0
                   /\ last.moved[j].terminated = 0)
                  => /\ 3 \in FinalCodes(last.pre[i].serial) \cup FinalCodes(last.pre[j].serial)
                     /\ Len(last.pre) = 2 => FinalCodes(last.pre[i].serial) = {3}

\* two aircraft that had moved once, to less than min_sep from each other, entered
\* the step unflagged; this step flagged both on that distance although its movement
\* took them min_sep apart
C7_Witness ==
    /\ ~last.raised
    /\ Len(last.pre) = 2
    /\ \A i \in 1..2 : last.pre[i].updater = 1 /\ FinalCodes(last.pre[i].serial) = {3}
    /\ last.matrix[1][2] < min_sep * 1000
    /\ get_dist_mm(last.moved[1].position, last.moved[2].position) >= min_sep * 1000

(***************************************************************************)
(* Route on its own (specification SpecRoute): a Route is constructed from *)
(* a sequence of waypoints of the scenario and update is called on it with *)
(* positions of a grid.  h holds the sequence, the outcome of Route(...),  *)
(* the outcome of load_json on a file holding a first route and this one,  *)
(* the Route now and before the latest update, and that call's position    *)
(* and result.                                                             *)
(***************************************************************************)
\* the longest sequence of waypoints, and the number of update calls on one Route
MaxRouteLen == 3

MaxUpdates == 3

\* the waypoints the sequences are made of: three on the line y = 50 m
RouteNames == {"A", "B", "E"}

\* every sequence of those, and a route that turns at B towards C, off that line
RouteSeqs == UNION {[1..n -> RouteNames] : n \in 0..MaxRouteLen} \cup {<<"A", "B", "C">>}

\* positions in 1/Q metre.  On the line: west of A, at A, on the west edge of B's
\* region, inside the regions of A and B, at B, inside the region of E only.  Off
\* the line: inside the corridor, at max_dist from the line, and on the north edge
\* of the regions; south of the line, inside the region of B, 20 m from the line
\* A-B and 30.8 m from the line B-C
RoutePositions ==
    {Pt(4 * Q, 50 * Q), Pt(30 * Q, 50 * Q), Pt(31 * Q + 36, 50 * Q), Pt(40 * Q, 50 * Q),
     Pt(56 * Q + 36, 50 * Q), Pt(90 * Q, 50 * Q),
     Pt(40 * Q, 74 * Q), Pt(40 * Q, 75 * Q), Pt(40 * Q, 100 * Q), Pt(33 * Q, 30 * Q)}

RouteState(seq, made) ==
    [op |-> "Route", seq |-> seq, made |-> made,
     loaded |-> load_json(ScenarioWaypoints, <<ScenarioRoutes[1], seq>>),
     route |-> made, pre |-> made, pos |-> Pt(0, 0), ret |-> 0, called |-> FALSE,
     n |-> 0, adv |-> 0]

InitRoute ==
    /\ EnvInit
    /\ h \in {RouteState(seq, RouteNew(ScenarioWaypoints, 0, seq)) : seq \in RouteSeqs}

\* u: the outcome of self.update(p) on the Route of h
RouteCallEffect(p, u) ==
    h' = [h EXCEPT !.route = u.route, !.pre = h.route, !.pos = p, !.ret = u.ret,
                   !.called = TRUE, !.n = h.n + 1,
                   !.adv = IF Len(u.route.route) < Len(h.route.route)
                           THEN h.adv + 1 ELSE h.adv]

\* route.update(p), with the default max_dist
RouteUpdateCall(p) ==
    /\ h.made.kind = "Route"
    /\ h.n < MaxUpdates
    /\ RouteCallEffect(p, RouteUpdate(waypoints, h.route, p, max_dist))
    /\ UNCHANGED envVars

NextRoute == \E p \in RoutePositions : RouteUpdateCall(p)

SpecRoute == InitRoute /\ [][NextRoute]_vars

\* the sequence has two waypoints or more and no two consecutive ones coincide
ValidRoute(seq) ==
    /\ Len(seq) >= 2
    /\ \A i \in 1..(Len(seq) - 1) : waypoints[seq[i]] # waypoints[seq[i + 1]]

\* C8: an update of a valid Route with an empty queue and the position inside the
\* region of next_waypoint returns 1 and leaves the Route as it was
C8_ArrivedAtFinalWaypoint ==
    (/\ h.called
     /\ ValidRoute(h.seq)
     /\ h.pre.route = << >>
     /\ has_reached(waypoints[h.pre.next_waypoint], h.pos))
    => h.ret = 1 /\ h.route = h.pre

\* C9: an update of a valid Route with a non-empty queue and the position inside
\* the region of next_waypoint makes previous_waypoint the former next_waypoint,
\* next_waypoint the head of the queue and the queue its tail; after k advances
\* previous_waypoint and next_waypoint are waypoints k+1 and k+2 of the sequence
C9_CursorAdvance ==
    /\ (/\ h.called
        /\ ValidRoute(h.seq)
        /\ h.pre.route # << >>
        /\ has_reached(waypoints[h.pre.next_waypoint], h.pos))
       => /\ h.route.previous_waypoint = h.pre.next_waypoint
          /\ h.route.next_waypoint = Head(h.pre.route)
          /\ h.route.route = Tail(h.pre.route)
    /\ h.made.kind = "Route"
       => /\ h.route.previous_waypoint = h.seq[h.adv + 1]
          /\ h.route.next_waypoint = h.seq[h.adv + 2]

\* C10: Route(...) on fewer than two waypoints raises, and so does load_json on a
\* file holding that route; on two or more it yields a Route with start the first
\* waypoint, next_waypoint the second, previous_waypoint the start and the queue
\* the waypoints after the second, and load_json returns with that Route
C10_RouteConstruction ==
    /\ Len(h.seq) < 2
       => h.made.kind = "Exception" /\ h.loaded.kind = "Exception"
    /\ Len(h.seq) >= 2
       => /\ h.made.kind = "Route"
          /\ h.made.start = h.seq[1]
          /\ h.made.next_waypoint = h.seq[2]
          /\ h.made.previous_waypoint = h.made.start
          /\ h.made.route = SubSeq(h.seq, 3, Len(h.seq))
          /\ h.loaded.kind = "loaded"
          /\ Len(h.loaded.routes) = 2
          /\ h.loaded.routes[2].origional_route = h.seq
          /\ h.loaded.routes[2].route = h.made.route

\* Route(...) on a single waypoint raised, and so did load_json on the file that
\* holds that route after a well-formed one
C10_Witness ==
    /\ Len(h.seq) = 1
    /\ h.made.kind = "Exception"
    /\ h.loaded.kind = "Exception"
    /\ RouteNew(waypoints, 1, ScenarioRoutes[1]).kind = "Route"

(***************************************************************************)
(* check_collisions on its own (specification SpecColl): the active        *)
(* mapping holds up to MaxColl aircraft on a line, with any codes an        *)
(* Aircraft.step leaves, and the matrix is the one of their positions.     *)
(* h holds the mapping now and before the call, and the matrix.            *)
(***************************************************************************)
MaxColl == 3

\* x coordinates in metres: 0-10-25 is a chain of two close pairs whose ends are
\* min_sep apart, and 35 is min_sep from 10
CollXs == {0, 10, 25, 35}

CollCodes == 0 .. 2

CollAircraft(i, x, code) ==
    [AircraftNew(i, Pt(x * Q, 0), max_speed, 100, 0, SCALE, NoRoute, i)
        EXCEPT !.terminated = code]

\* the active mappings of n aircraft
CollInputs(n) ==
    {[i \in 1..n |-> CollAircraft(i, xs[i], cs[i])] :
        xs \in [1..n -> CollXs], cs \in [1..n -> CollCodes]}

CollState(acs) ==
    [op |-> "check_collisions", acs |-> acs, pre |-> acs,
     matrix |-> get_distance_matrix(acs), called |-> FALSE]

InitColl ==
    /\ EnvInit
    /\ \E n \in 0..MaxColl : \E acs \in CollInputs(n) : h = CollState(acs)

\* self.check_collisions(dist_matrix), with the default min_sep
CheckCollisionsCall ==
    /\ ~h.called
    /\ h' = [h EXCEPT !.acs = check_collisions(h.acs, h.matrix, min_sep),
                      !.pre = h.acs, !.called = TRUE]
    /\ UNCHANGED envVars

NextColl == CheckCollisionsCall

SpecColl == InitColl /\ [][NextColl]_vars

\* the identities with termination code 3
Flagged(acs) == {acs[i]._id : i \in {k \in 1..Len(acs) : acs[k].terminated = 3}}

\* the mapping in the order p
Reordered(acs, p) == [i \in 1..Len(acs) |-> acs[p[i]]]

\* C4: after check_collisions on aircraft that all had code 0, both aircraft of
\* every pair whose matrix distance is below min_sep have code 3
C4_EveryClosePairFlagged ==
    (h.called /\ \A i \in 1..Len(h.pre) : h.pre[i].terminated = 0)
    => \A i, j \in 1..Len(h.acs) :
          (i # j /\ h.matrix[i][j] < min_sep * 1000)
          => h.acs[i].terminated = 3 /\ h.acs[j].terminated = 3

\* C5: check_collisions on the same aircraft in any other order, with the matrix
\* of that order, flags the same identities
C5_OrderIndependent ==
    h.called
    => \A p \in Permutations(1..Len(h.pre)) :
          Flagged(check_collisions(Reordered(h.pre, p),
                                   get_distance_matrix(Reordered(h.pre, p)), min_sep))
          = Flagged(h.acs)

\* C6: check_collisions changes nothing but termination codes, and not the code of
\* an aircraft whose matrix distance to every other aircraft is min_sep or more
C6_OnlyClosePairsChange ==
    h.called
    => /\ Len(h.acs) = Len(h.pre)
       /\ \A i \in 1..Len(h.pre) :
             /\ h.acs[i] = [h.pre[i] EXCEPT !.terminated = h.acs[i].terminated]
             /\ (\A j \in 1..Len(h.pre) : j # i => h.matrix[i][j] >= min_sep * 1000)
                   => h.acs[i].terminated = h.pre[i].terminated

\* the call flagged a pair and left alone an aircraft with code 0 that is exactly
\* min_sep from one of the pair and further from the other
C6_Witness ==
    /\ h.called
    /\ \E i, j, k \in 1..Len(h.pre) :
          /\ h.pre[i].terminated = 0 /\ h.acs[i].terminated = 0
          /\ h.matrix[i][j] = min_sep * 1000
          /\ h.matrix[i][k] > min_sep * 1000
          /\ h.pre[j].terminated = 0 /\ h.acs[j].terminated = 3
          /\ h.acs[k].terminated = 3

(***************************************************************************)
(* Aircraft on its own (specification SpecEntity): an Aircraft is          *)
(* constructed as generate_ac does, or without a route, and is stepped;    *)
(* between steps check_collisions may flag it.  h holds the Aircraft now   *)
(* and before the latest step.                                             *)
(***************************************************************************)
MaxEntitySteps == 4

\* requested speeds (the constructor caps them at max_speed), start positions and
\* headings of the aircraft without a route
EntitySpeeds == {30, 45, 60}

EntityStarts == {Pt(30, 50 * Q), Pt(50 * Q, 50 * Q)}

EntityHeadings == {0, 90, 180, 270}

\* a route that leaves the world by its east edge
EdgeRoute == RouteNew(ScenarioWaypoints, Len(ScenarioRoutes), <<"H", "F">>)

EntityInputs ==
    {AircraftNew(0, waypoints[routes[k].start], spd, 100, routes[k].init_heading, SCALE,
                 RouteCopy(waypoints, routes[k]), 1) :
        k \in 1..Len(routes), spd \in EntitySpeeds}
    \cup {AircraftNew(0, waypoints[EdgeRoute.start], spd, 100, EdgeRoute.init_heading,
                      SCALE, RouteCopy(waypoints, EdgeRoute), 1) : spd \in EntitySpeeds}
    \cup {AircraftNew(0, p, spd, 100, hd, SCALE, NoRoute, 1) :
            p \in EntityStarts, spd \in EntitySpeeds, hd \in EntityHeadings}

EntityState(ac) ==
    [op |-> "Aircraft", ac |-> ac, pre |-> ac, stepped |-> FALSE, raised |-> FALSE, n |-> 0]

InitEntity == EnvInit /\ h \in {EntityState(ac) : ac \in EntityInputs}

\* r: the outcome of ac.step(bounds)
EntityStepEffect(r) ==
    h' = [h EXCEPT !.ac = r.ac, !.pre = h.ac, !.stepped = TRUE, !.raised = r.raised,
                   !.n = h.n + 1]

\* ac.step(bounds)
EntityStep ==
    /\ h.n < MaxEntitySteps
    /\ EntityStepEffect(AircraftStep(waypoints, h.ac, AREA))
    /\ UNCHANGED envVars

\* check_collisions, lines 302-304, flags the aircraft
EntityFlagged ==
    /\ h.ac.terminated = 0
    /\ h' = [h EXCEPT !.ac.terminated = 3, !.stepped = FALSE]
    /\ UNCHANGED envVars

NextEntity == EntityStep \/ EntityFlagged

SpecEntity == InitEntity /\ [][NextEntity]_vars

\* C2: a step of an Aircraft whose termination code is not 0 leaves its position
\* and its termination code as they were
C2_StepNoOpWhenTerminated ==
    (h.stepped /\ h.pre.terminated # 0)
    => h.ac.position = h.pre.position /\ h.ac.terminated = h.pre.terminated

(***************************************************************************)
(* Route objects and their copies (specification SpecCopy).  h.heap is the *)
(* sequence of the Route objects in existence, object 1 the Route of the   *)
(* Environment; h.names are the references held: names[1] the             *)
(* Environment's, the others the results of copy(); h.ents are Aircraft    *)
(* generated as generate_ac does, each holding one of the names in its     *)
(* route attribute.  h.pre is the heap before the latest call, h.act that  *)
(* call.                                                                   *)
(***************************************************************************)
\* the number of copy() calls, and of update and step calls
MaxCopies == 2

MaxCopyUpdates == 3

CopySeqs == UNION {[1..n -> RouteNames] : n \in 2..MaxRouteLen}

\* positions of the update calls: at A, inside the regions of A and B, inside the
\* region of E only
CopyPositions == {Pt(30 * Q, 50 * Q), Pt(40 * Q, 50 * Q), Pt(90 * Q, 50 * Q)}

CopyState(seq) ==
    [op |-> "copy", seq |-> seq, heap |-> <<RouteNew(ScenarioWaypoints, 1, seq)>>,
     names |-> <<1>>, ents |-> << >>, pre |-> <<RouteNew(ScenarioWaypoints, 1, seq)>>,
     act |-> [kind |-> "none", name |-> 0], n |-> 0]

InitCopy == EnvInit /\ h \in {CopyState(seq) : seq \in CopySeqs}

\* c: the outcome of copy() on the object of name k
CopyEffect(k, c) ==
    h' = [h EXCEPT !.heap = c.heap, !.names = Append(h.names, c.ref), !.pre = h.heap,
                   !.act = [kind |-> "copy", name |-> k]]

\* x = names[k].copy()
CopyCall(k) ==
    /\ Len(h.names) <= MaxCopies
    /\ CopyEffect(k, RouteCopyObject(waypoints, h.heap, h.names[k]))
    /\ UNCHANGED envVars

\* c: the outcome of self.objects['routes'][key].copy() in generate_ac
GenerateEffect(c, spd) ==
    h' = [h EXCEPT !.heap = c.heap, !.names = Append(h.names, c.ref), !.pre = h.heap,
                   !.act = [kind |-> "copy", name |-> 1],
                   !.ents = Append(h.ents,
                               [name |-> Len(h.names) + 1,
                                ac |-> AircraftNew(Len(h.ents), waypoints[h.heap[1].start],
                                                   spd, 100, h.heap[1].init_heading, SCALE,
                                                   c.heap[c.ref], Len(h.ents) + 1)])]

\* generate_ac on the Route of the Environment
GenerateCall ==
    /\ Len(h.names) <= MaxCopies
    /\ \E spd \in SpdRange :
          GenerateEffect(RouteCopyObject(waypoints, h.heap, h.names[1]), spd)
    /\ UNCHANGED envVars

\* u: the outcome of names[k].update(p)
CopyUpdateEffect(k, u) ==
    h' = [h EXCEPT !.heap = [h.heap EXCEPT ![h.names[k]] = u.route], !.pre = h.heap,
                   !.act = [kind |-> "update", name |-> k], !.n = h.n + 1]

\* names[k].update(p) on a copy
CopyUpdateCall(k, p) ==
    /\ k > 1
    /\ h.n < MaxCopyUpdates
    /\ CopyUpdateEffect(k, RouteUpdate(waypoints, h.heap[h.names[k]], p, max_dist))
    /\ UNCHANGED envVars

\* r: the outcome of the step of Aircraft e, whose route is the object of its name
CopyStepEffect(e, r) ==
    h' = [h EXCEPT !.heap = [h.heap EXCEPT ![h.names[h.ents[e].name]] = r.ac.route],
                   !.ents = [h.ents EXCEPT ![e].ac = r.ac],
                   !.pre = h.heap,
                   !.act = [kind |-> "step", name |-> h.ents[e].name], !.n = h.n + 1]

\* ents[e].step(bounds)
CopyStepCall(e) ==
    /\ h.n < MaxCopyUpdates
    /\ CopyStepEffect(e, AircraftStep(waypoints,
                                      [h.ents[e].ac EXCEPT
                                          !.route = h.heap[h.names[h.ents[e].name]]],
                                      AREA))
    /\ UNCHANGED envVars

NextCopy ==
    \/ \E k \in 1..Len(h.names) : CopyCall(k)
    \/ GenerateCall
    \/ \E k \in 1..Len(h.names), p \in CopyPositions : CopyUpdateCall(k, p)
    \/ \E e \in 1..Len(h.ents) : CopyStepCall(e)

SpecCopy == InitCopy /\ [][NextCopy]_vars

\* the cursor of a Route object
Cursor(r) ==
    [next_waypoint |-> r.next_waypoint, previous_waypoint |-> r.previous_waypoint,
     route |-> r.route]

\* the cursor a Route of the waypoints seq starts with
InitialCursor(seq) ==
    [next_waypoint |-> seq[2], previous_waypoint |-> seq[1],
     route |-> SubSeq(seq, 3, Len(seq))]

\* C11: an update or a step through one reference leaves the cursor seen through
\* every other reference as it was, a copy() leaves the cursors of all earlier
\* references as they were, and the Route of the Environment keeps its initial cursor
C11_CursorNotShared ==
    /\ h.act.kind \in {"update", "step"}
       => \A k \in 1..Len(h.names) :
             k # h.act.name => Cursor(h.heap[h.names[k]]) = Cursor(h.pre[h.names[k]])
    /\ h.act.kind = "copy"
       => \A k \in 1..(Len(h.names) - 1) :
             Cursor(h.heap[h.names[k]]) = Cursor(h.pre[h.names[k]])
    /\ Cursor(h.heap[h.names[1]]) = InitialCursor(h.seq)

\* two Aircraft were generated on the same route, and the step of one advanced
\* the cursor of its Route while the other's is still the initial one
C11_Witness ==
    /\ h.act.kind = "step"
    /\ Len(h.ents) = 2
    /\ Cursor(h.heap[h.names[h.act.name]]) # Cursor(h.pre[h.names[h.act.name]])
    /\ \E e \in 1..2 :
          /\ h.ents[e].name # h.act.name
          /\ Cursor(h.heap[h.names[h.ents[e].name]]) = InitialCursor(h.seq)

\* C12: the Route copy() returns has the initial cursor of the ordered sequence and
\* the ordered sequence of its source, wherever the cursor of the source is and
\* whether the source is the Route of the Environment or itself a copy
C12_CopyIsFresh ==
    h.act.kind = "copy"
    => /\ Cursor(h.heap[h.names[Len(h.names)]]) = InitialCursor(h.seq)
       /\ h.heap[h.names[Len(h.names)]].origional_route
            = h.heap[h.names[h.act.name]].origional_route
       /\ h.heap[h.names[Len(h.names)]].origional_route = h.seq
       /\ h.heap[h.names[Len(h.names)]].start = h.seq[1]

\* a copy was taken of a copy whose cursor had advanced
C12_Witness ==
    /\ h.act.kind = "copy"
    /\ h.act.name > 1
    /\ Cursor(h.heap[h.names[h.act.name]]) # InitialCursor(h.seq)
    /\ Cursor(h.heap[h.names[Len(h.names)]]) = InitialCursor(h.seq)

(***************************************************************************)
(* VolumeSim.main: run in a thread of its own, the main thread clearing    *)
(* the flag when the window has closed.  The initial state is the one      *)
(* after t.start(); h.stop tells whether main has executed line 61, h.fin  *)
(* is the value the latest Window.step got from get_is_finished() and h.at *)
(* where the thread of run was at that moment.                             *)
(***************************************************************************)
InitMain == EnvInit /\ h = [op |-> "main", stop |-> FALSE, fin |-> FALSE, at |-> "idle"]

\* the thread of run enters run once
RunOnce(m) == ~ran /\ RunCall(m)

\* VolumeSim.main, line 61: env.running = False, whatever the thread of run is doing
MainStop ==
    /\ ~h.stop
    /\ running' = FALSE
    /\ h' = [h EXCEPT !.stop = TRUE]
    /\ UNCHANGED <<waypoints, routes, aircraft, terminated, ran, pc, max_aircraft,
                   run_aircraft, run_step, timer, next_ac, created, ticks, last>>

\* Window.step, lines 90-91, in the main thread: the window goes on while
\* get_is_finished() is False
WindowStep ==
    /\ ~h.stop /\ ~h.fin
    /\ h' = [h EXCEPT !.fin = get_is_finished(ran, running), !.at = pc]
    /\ UNCHANGED envVars

\* the steps of the thread of run
RunThread ==
    \/ \E m \in MaxAircraftChoices : RunOnce(m)
    \/ RunStart
    \/ RunStop
    \/ RunTick
    \/ RunReturn

NextMain ==
    \/ \E m \in MaxAircraftChoices : RunOnce(m)
    \/ RunStart
    \/ RunStop
    \/ RunTick
    \/ RunReturn
    \/ MainStop
    \/ WindowStep

\* a started thread that can take a step is scheduled in the end
SpecMain == InitMain /\ [][NextMain]_vars /\ WF_vars(RunThread)

\* run has returned
Returned == ran /\ pc = "idle"

\* C13: run called with max_aircraft = m > 0 comes to the test of line 204 with
\* aircraft = m and returns: a turn of the loop that starts below m does not end
\* above m (aircraft only grows, so above m the test stays false for ever)
C13_RunComesToItsMaximum ==
    [][(pc = "loop" /\ pc' = "loop" /\ max_aircraft > 0 /\ run_aircraft < max_aircraft)
       => run_aircraft' <= max_aircraft']_vars

\* C14: during a run with max_aircraft = m > 0, the number of aircraft the run has
\* generated is at most m
C14_NeverMoreThanMax ==
    (pc = "loop" /\ max_aircraft > 0) => run_aircraft <= max_aircraft

\* the Aircraft of route i that the turn of the loop from this state generates
Born(i) ==
    {k \in 1..Len(last'.pre) :
        last'.pre[k].serial > created /\ last'.pre[k].route._id = routes[i]._id}

\* C15: a turn of run's loop generates one aircraft on a route exactly when timer
\* equals the route's next_ac, and then adds a value of the delay list to it; the
\* time of a route is never behind timer, and after a spawn it is ahead of the
\* timer value of the spawn
C15_SpawnWhenDue ==
    /\ [](pc = "loop" => \A i \in 1..Len(next_ac) : next_ac[i] >= timer)
    /\ [][(pc = "loop" /\ ticks' = ticks + 1)
          => \A i \in 1..Len(next_ac) :
                IF next_ac[i] = timer
                THEN /\ Cardinality(Born(i)) = 1
                     /\ (next_ac'[i] - next_ac[i]) \in DelayChoices
                     /\ next_ac'[i] > timer
                     /\ next_ac'[i] >= timer'
                ELSE /\ Born(i) = {}
                     /\ next_ac'[i] = next_ac[i]]_vars

\* a route has spawned for the second time in one run, at a later timer value
C15_Witness ==
    /\ pc = "loop"
    /\ created = run_aircraft
    /\ timer >= 1
    /\ \E j, k \in 1..Len(last.pre) :
          /\ last.pre[j].route._id = last.pre[k].route._id
          /\ last.pre[j].serial < last.pre[k].serial
          /\ last.pre[k].serial = created
          /\ last.pre[k].updater = 0

C17_StopIsKept ==
    (h.stop /\ max_aircraft = 0 /\ pc \in {"starting", "loop"}) => ~running

(***************************************************************************)
(* Environment.update_active as a function of the two mappings.  The       *)
(* active mapping holds up to MaxActive aircraft with the codes step and   *)
(* check_collisions leave, the terminated mapping up to MaxTerminated      *)
(* aircraft; an identity may be a key of both, as generate_ac allows.      *)
(* h holds the mappings now and before the call.                           *)
(***************************************************************************)
MaxActive == 3

MaxTerminated == 2

ActiveIds == 0 .. (MaxActive - 1)

ActiveCodes == 0 .. 3

TerminatedCodes == 1 .. 3

ActiveAircraft(id, code, serial) ==
    [AircraftNew(id, Pt(0, 0), max_speed, 100, 0, SCALE, NoRoute, serial)
        EXCEPT !.terminated = code]

\* the sequences of n different keys
KeySeqs(n) == {ks \in [1..n -> ActiveIds] : \A i, j \in 1..n : i # j => ks[i] # ks[j]}

\* the mappings of n aircraft with codes of cs, numbered from serial + 1 on
Mappings(n, cs, serial) ==
    {[i \in 1..n |-> ActiveAircraft(ks[i], c[i], serial + i)] :
        ks \in KeySeqs(n), c \in [1..n -> cs]}

ActiveState(acs, term) ==
    [op |-> "update_active", aircraft |-> acs, terminated |-> term,
     pre |-> [aircraft |-> acs, terminated |-> term], called |-> FALSE]

InitActive ==
    /\ EnvInit
    /\ \E n \in 0..MaxActive, k \in 0..MaxTerminated :
       \E term \in Mappings(k, TerminatedCodes, 0) :
       \E acs \in Mappings(n, ActiveCodes, k) : h = ActiveState(acs, term)

UpdateActiveEffect(ua) ==
    h' = [h EXCEPT !.aircraft = ua.aircraft, !.terminated = ua.terminated,
                   !.pre = [aircraft |-> h.aircraft, terminated |-> h.terminated],
                   !.called = TRUE]

\* self.update_active()
UpdateActiveCall ==
    /\ ~h.called
    /\ UpdateActiveEffect(update_active(h.aircraft, h.terminated))
    /\ UNCHANGED envVars

NextActive == UpdateActiveCall

SpecActive == InitActive /\ [][NextActive]_vars

\* the entries of mapping d with code 0, and the others, in the order of d
StillActive(d) == SelectSeq(d, LAMBDA a : a.terminated = 0)

NowTerminated(d) == SelectSeq(d, LAMBDA a : a.terminated # 0)

\* C18: after update_active the active mapping is its former entries with code 0
\* in their order, and the terminated mapping is its former entries, unchanged and
\* in their order, followed by the former active entries with another code in
\* their order
C18_Partition ==
    h.called
    => /\ h.aircraft = StillActive(h.pre.aircraft)
       /\ h.terminated = h.pre.terminated \o NowTerminated(h.pre.aircraft)

\* C19: the matrix of the most recent Environment.step is square with one row per
\* active aircraft, zero on the diagonal and symmetric, entry (i, j) is the distance
\* of the i-th and j-th aircraft of the active mapping, and after the movement loop,
\* when check_collisions reads the matrix, the i-th key of the mapping is still the
\* same aircraft
C19_MatrixOfActiveOrder ==
    ticks > 0
    => /\ Len(last.matrix) = Len(last.pre)
       /\ Len(last.moved) = Len(last.pre)
       /\ \A i \in 1..Len(last.pre) :
             /\ Len(last.matrix[i]) = Len(last.pre)
             /\ last.matrix[i][i] = 0
             /\ last.moved[i]._id = last.pre[i]._id
             /\ last.moved[i].serial = last.pre[i].serial
             /\ \A j \in 1..Len(last.pre) :
                   /\ last.matrix[i][j] = last.matrix[j][i]
                   /\ i # j => last.matrix[i][j] = get_dist_mm(last.pre[i].position,
                                                               last.pre[j].position)

\* a step with two aircraft closer than min_sep, flagged by check_collisions after
\* both had moved
C19_Witness ==
    /\ ticks > 0
    /\ Len(last.pre) = 2
    /\ last.matrix[1][2] > 0
    /\ last.matrix[1][2] < min_sep * 1000
    /\ \A i \in 1..2 : last.moved[i].position # last.pre[i].position
    /\ FinalCodes(last.pre[1].serial) = {3}

\* the position lies outside the world rectangle, whose edges are inside
OutsideWorld(p) ==
    \/ p.x < 0 \/ p.x > AREA[1] * Q
    \/ p.y < 0 \/ p.y > AREA[2] * Q

\* the value route.update returns for aircraft a moved to position p, 0 without route
RouteResult(a, p) ==
    IF a.route = NoRoute THEN 0 ELSE RouteUpdate(waypoints, a.route, p, max_dist).ret

\* the code the claim gives for route result u and position p
ClaimedCode(u, p) == IF u \in {1, 2} THEN u ELSE IF OutsideWorld(p) THEN 2 ELSE 0

\* C20: after a step of an aircraft with code 0 that returns, the code is the value
\* of route.update at the moved position when that is 1 or 2, else 2 when the moved
\* position is outside the world rectangle (edges inside), else 0
C20_StepCode ==
    (h.stepped /\ ~h.raised /\ h.pre.terminated = 0)
    => /\ h.ac.position = update_position(h.pre).position
       /\ h.ac.terminated = ClaimedCode(RouteResult(h.pre, h.ac.position), h.ac.position)

\* an aircraft on a route arrived with its moved position outside the world, and
\* keeps code 1
C20_Witness ==
    /\ h.stepped /\ ~h.raised /\ h.pre.terminated = 0
    /\ h.pre.route # NoRoute
    /\ OutsideWorld(h.ac.position)
    /\ RouteResult(h.pre, h.ac.position) = 1
    /\ h.ac.terminated = 1

(***************************************************************************)
(* Route.update with the deviation test switched off (specification        *)
(* SpecRouteFree): the Routes and positions of SpecRoute, max_dist = -1.   *)
(***************************************************************************)
\* route.update(p, max_dist = -1)
RouteUpdateFreeCall(p) ==
    /\ h.made.kind = "Route"
    /\ h.n < MaxUpdates
    /\ RouteCallEffect(p, RouteUpdate(waypoints, h.route, p, 0 - 1))
    /\ UNCHANGED envVars

NextRouteFree == \E p \in RoutePositions : RouteUpdateFreeCall(p)

SpecRouteFree == InitRoute /\ [][NextRouteFree]_vars

\* C21: with max_dist = -1 an update of a valid Route returns 1 when the position
\* is inside the region of next_waypoint and the queue is empty, and 0 otherwise,
\* never 2 and never an exception; it advances the cursor exactly when the region
\* is reached with a non-empty queue
C21_NoDeviationTest ==
    (h.called /\ ValidRoute(h.seq))
    => /\ h.ret = IF /\ has_reached(waypoints[h.pre.next_waypoint], h.pos)
                     /\ h.pre.route = << >>
                  THEN 1 ELSE 0
       /\ h.route.route =
            IF has_reached(waypoints[h.pre.next_waypoint], h.pos) /\ h.pre.route # << >>
            THEN Tail(h.pre.route) ELSE h.pre.route

\* the value dist_to_line gives update for the Route r and position p
LineOf(r, p) == dist_to_line(waypoints[r.previous_waypoint], waypoints[r.next_waypoint], p)

\* C22: an update of a valid Route for which dist_to_line returns its 9e10 value
\* (the foot of the position lies outside the span of the segment) does not
\* return 2
C22_SentinelDisablesTest ==
    (h.called /\ ValidRoute(h.seq) /\ LineOf(h.pre, h.pos).kind = "invalid")
    => h.ret # 2

\* C23: has_reached is true on the closed rectangle of the waypoint, so an update
\* of a valid Route with an empty queue at a position of the closed rectangle of
\* next_waypoint, its edges included, returns 1
C23_RegionIsClosed ==
    (/\ h.called
     /\ ValidRoute(h.seq)
     /\ h.pre.route = << >>
     /\ WaypointBounds(waypoints[h.pre.next_waypoint]).lo.x <= h.pos.x
     /\ h.pos.x <= WaypointBounds(waypoints[h.pre.next_waypoint]).hi.x
     /\ WaypointBounds(waypoints[h.pre.next_waypoint]).lo.y <= h.pos.y
     /\ h.pos.y <= WaypointBounds(waypoints[h.pre.next_waypoint]).hi.y)
    => /\ has_reached(waypoints[h.pre.next_waypoint], h.pos)
       /\ h.ret = 1

\* C24: get_is_finished() called by the window's thread returns TRUE only when the
\* loop of run has stopped: the thread of run is in its loop with running FALSE, or
\* has returned; never while run is starting
C24_FinishedOnlyAfterLoop ==
    h.fin => h.at \in {"loop", "idle"}

(***************************************************************************)
(* run on a scenario file whose first route comes back to its first        *)
(* waypoint and whose second route starts inside the region of its final   *)
(* waypoint, so that its aircraft arrive with their first step             *)
(* (specification SpecTick).                                               *)
(***************************************************************************)
TickRoutes == << <<"A", "B", "A">>, <<"B", "E">> >>

\* Environment(area, ..., env_path) on that file
InitTick ==
    /\ waypoints = ScenarioWaypoints
    /\ routes = load_json(ScenarioWaypoints, TickRoutes).routes
    /\ aircraft = << >>
    /\ terminated = << >>
    /\ running = FALSE
    /\ ran = FALSE
    /\ pc = "idle"
    /\ max_aircraft = 0
    /\ run_aircraft = 0
    /\ run_step = 0
    /\ timer = 0
    /\ next_ac = << >>
    /\ created = 0
    /\ ticks = 0
    /\ last = NoStep
    /\ h = [op |-> "none"]

NextTick ==
    \/ \E m \in MaxAircraftChoices : RunCall(m)
    \/ RunStart
    \/ RunReturn
    \/ RunStop
    \/ RunTick
    \/ ExternalStop

SpecTick == InitTick /\ [][NextTick]_vars

\* C25: a turn of run's loop that passes the stop test takes the distance matrix
\* of the aircraft after the spawn loop (the new ones still at their start), moves
\* every one of them, flags the collisions on that matrix, and reconciles the
\* mappings; it ends with run still in its loop, whatever running is by then
C25_TickPhases ==
    [][(pc = "loop" /\ ticks' = ticks + 1)
       => /\ \A i \in 1..Len(last'.pre) :
                last'.pre[i].serial > created
                => /\ last'.pre[i].updater = 0
                   /\ last'.pre[i].position = waypoints[last'.pre[i].route.start]
          /\ Cardinality({i \in 1..Len(last'.pre) : last'.pre[i].serial > created})
               = Cardinality({i \in 1..Len(next_ac) : next_ac[i] = timer})
          /\ last'.matrix = get_distance_matrix(last'.pre)
          /\ Len(last'.moved) = Len(last'.pre)
          /\ \A i \in 1..Len(last'.pre) :
                last'.moved[i].updater = last'.pre[i].updater + 1
          /\ update_active(check_collisions(last'.moved, last'.matrix, min_sep), terminated)
               = [aircraft |-> aircraft', terminated |-> terminated']
          /\ pc' = "loop"]_vars

C27_NeverStartsEmpty ==
    /\ [](/\ pc = "starting" => \E i \in 1..Len(next_ac) : next_ac[i] = 0
          /\ (pc = "loop" /\ (timer > 0 \/ run_step > 0)) => run_aircraft >= 1)
    /\ [][(pc = "loop" /\ timer = 0 /\ run_step = 0 /\ ticks' = ticks + 1)
          => (run_aircraft' >= 1 /\ created' > created /\ Len(last'.pre) >= 1)]_vars

\* the first turn of a run in which one route only was forced to time 0
C27_Witness ==
    /\ pc = "loop"
    /\ timer = 0 /\ run_step = 1
    /\ run_aircraft = 1
    /\ \E i \in 1..Len(next_ac) : next_ac[i] > 0 /\ next_ac[i] \in DelayChoices
    /\ \E i \in 1..Len(last.pre) : last.pre[i].updater = 0 /\ last.pre[i].serial = created

\* the code of the Aircraft object with serial number s in the mapping d
CodesIn(d, s) == {d[i].terminated : i \in {k \in 1..Len(d) : d[k].serial = s}}

\* C28: every aircraft of the active mapping has code 0 and every aircraft of the
\* terminated mapping a code of 1, 2, 3, which it keeps while it is there; an
\* Environment.step that returns leaves each aircraft it stepped either active with
\* code 0 or terminated, and terminated with the code of its movement when that
\* is not 0
C28_CodesAndMappings ==
    /\ [](/\ \A i \in 1..Len(aircraft) : aircraft[i].terminated = 0
          /\ \A i \in 1..Len(terminated) : terminated[i].terminated \in {1, 2, 3})
    /\ [][\A i \in 1..Len(terminated) :
             CodesIn(terminated', terminated[i].serial) \subseteq {terminated[i].terminated}]_vars
    /\ [][(ticks' = ticks + 1 /\ ~last'.raised)
          => \A i \in 1..Len(last'.pre) :
                /\ CodesIn(aircraft', last'.pre[i].serial)
                     \cup CodesIn(terminated', last'.pre[i].serial) # {}
                /\ CodesIn(aircraft', last'.pre[i].serial) \subseteq {0}
                /\ last'.moved[i].terminated # 0
                   => /\ CodesIn(aircraft', last'.pre[i].serial) = {}
                      /\ CodesIn(terminated', last'.pre[i].serial)
                           = {last'.moved[i].terminated}]_vars

\* the latest step gave an aircraft code 1 by its movement, and the aircraft is in
\* the terminated mapping with that code and no longer in the active one
C28_Witness ==
    /\ ticks > 0
    /\ \E i \in 1..Len(last.moved) :
          /\ last.moved[i].terminated = 1
          /\ CodesIn(terminated, last.moved[i].serial) = {1}
          /\ CodesIn(aircraft, last.moved[i].serial) = {}

\* the entries of mapping d that the run in progress generated
RunEntities(d) == {i \in 1..Len(d) : d[i].serial > created - run_aircraft}

\* C29: during a run the aircraft it has generated are all in the active or in the
\* terminated mapping, and no step of the program removes or replaces an entry of
\* the terminated mapping
C29_NothingLost ==
    /\ [](pc = "loop"
          => Cardinality(RunEntities(aircraft)) + Cardinality(RunEntities(terminated))
               = run_aircraft)
    /\ [][/\ Len(terminated') >= Len(terminated)
          /\ \A i \in 1..Len(terminated) : terminated'[i] = terminated[i]]_vars

\* C30: check_collisions leaves the code of an aircraft that came with code 1 or
\* 2 as it is, and an aircraft whose every neighbour closer than min_sep came
\* with a code keeps its own code: a coded aircraft gets nobody flagged
C30_CodedAircraftLeftAlone ==
    h.called
    => \A i \in 1..Len(h.pre) :
          /\ h.pre[i].terminated \in {1, 2} => h.acs[i].terminated = h.pre[i].terminated
          /\ (\A k \in 1..Len(h.pre) :
                 (k # i /\ h.matrix[i][k] < min_sep * 1000) => h.pre[k].terminated # 0)
             => h.acs[i].terminated = h.pre[i].terminated

\* an aircraft with code 0 closer than min_sep to an aircraft that came with code
\* 1 or 2 is not flagged, and the coded aircraft keeps its code
C30_Witness ==
    /\ h.called
    /\ \E i, j \in 1..Len(h.pre) :
          /\ h.pre[i].terminated \in {1, 2}
          /\ h.acs[i].terminated = h.pre[i].terminated
          /\ h.pre[j].terminated = 0
          /\ h.matrix[i][j] > 0
          /\ h.matrix[i][j] < min_sep * 1000
          /\ h.acs[j].terminated = 0

(***************************************************************************)
(* run on a scenario file whose three routes leave the same waypoint B:    *)
(* the first ends at E, whose region holds B, so its aircraft arrive with  *)
(* their first step; the second goes west to A, the third east to H        *)
(* (specification SpecSpawn).                                              *)
(***************************************************************************)
SpawnRoutes == << <<"B", "E">>, <<"B", "A">>, <<"B", "H">> >>

\* Environment(area, ..., env_path) on that file
InitSpawn ==
    /\ waypoints = ScenarioWaypoints
    /\ routes = load_json(ScenarioWaypoints, SpawnRoutes).routes
    /\ aircraft = << >>
    /\ terminated = << >>
    /\ running = FALSE
    /\ ran = FALSE
    /\ pc = "idle"
    /\ max_aircraft = 0
    /\ run_aircraft = 0
    /\ run_step = 0
    /\ timer = 0
    /\ next_ac = << >>
    /\ created = 0
    /\ ticks = 0
    /\ last = NoStep
    /\ h = [op |-> "none"]

NextSpawn ==
    \/ \E m \in MaxAircraftChoices : RunCall(m)
    \/ RunStart
    \/ RunReturn
    \/ RunStop
    \/ RunTick
    \/ ExternalStop

SpecSpawn == InitSpawn /\ [][NextSpawn]_vars

\* C31: an aircraft generated in a turn of run's loop is an entry of that turn's
\* step: it has a row of the distance matrix, measured from its start waypoint; the
\* movement loop moves it once; and the collisions of the turn cover it: of two
\* aircraft at the same position at the start of the step that both keep code 0
\* in the movement, both end the turn with code 3
C31_NewbornInItsTick ==
    [][(pc = "loop" /\ ticks' = ticks + 1)
       => /\ \A s \in (created + 1)..created' :
                \E i \in 1..Len(last'.pre) :
                   /\ last'.pre[i].serial = s
                   /\ last'.pre[i].position = waypoints[last'.pre[i].route.start]
                   /\ Len(last'.matrix) = Len(last'.pre)
                   /\ \A j \in 1..Len(last'.pre) :
                         last'.matrix[i][j]
                           = get_dist_mm(waypoints[last'.pre[i].route.start],
                                         last'.pre[j].position)
                   /\ last'.moved[i].updater = 1
                   /\ last'.moved[i].position = update_position(last'.pre[i]).position
                   /\ last'.moved[i].position # last'.pre[i].position
          /\ \A i, j \in 1..Len(last'.pre) :
                (/\ i # j
                 /\ last'.pre[i].position = last'.pre[j].position
                 /\ last'.moved[i].terminated = 0
                 /\ last'.moved[j].terminated = 0)
                => /\ CodesIn(terminated', last'.pre[i].serial) = {3}
                   /\ CodesIn(terminated', last'.pre[j].serial) = {3}
                   /\ CodesIn(aircraft', last'.pre[i].serial) = {}
                   /\ CodesIn(aircraft', last'.pre[j].serial) = {}]_vars

\* the latest turn generated three aircraft at B: the first arrived with its
\* movement and has code 1; the other two, 0 m apart in the matrix and 1.5 m
\* apart after the movement, have code 3
C31_Witness ==
    /\ pc = "loop"
    /\ Len(last.pre) = 3
    /\ \A i \in 1..3 : last.pre[i].updater = 0 /\ last.pre[i].position = waypoints.B
    /\ last.matrix[2][3] = 0
    /\ last.moved[1].terminated = 1
    /\ CodesIn(terminated, last.pre[1].serial) = {1}
    /\ last.moved[2].position # last.moved[3].position
    /\ CodesIn(terminated, last.pre[2].serial) = {3}
    /\ CodesIn(terminated, last.pre[3].serial) = {3}

(***************************************************************************)
(* Further properties of Route.update (specification SpecRoute)            *)
(***************************************************************************)
\* the deviation decision for position pos against the segment from waypoint a to
\* waypoint b: 0, 2, or -1 for the division by zero
SegmentDecision(a, b, pos) ==
    IF waypoints[a] = waypoints[b] THEN 0 - 1
    ELSE IF DistLess(RoundDist(dist_to_line(waypoints[a], waypoints[b], pos)), max_dist)
         THEN 0 ELSE 2

\* C32: an update that advances the cursor decides the deviation against the
\* segment that ends at the new next_waypoint: the one from the waypoint just
\* reached, or, with previous_waypoint as update leaves it, the one from there
C32_DeviationOnNewSegment ==
    (h.called /\ Len(h.route.route) < Len(h.pre.route))
    => \/ h.ret = SegmentDecision(h.pre.next_waypoint, h.route.next_waypoint, h.pos)
       \/ h.ret = SegmentDecision(h.route.previous_waypoint, h.route.next_waypoint, h.pos)

(***************************************************************************)
(* The objects of the scenario and of the Aircraft (specification          *)
(* SpecScenario).  h.points is the sequence of the Point objects in        *)
(* existence: first the Waypoints of the file, in file order, then the     *)
(* position objects of the Aircraft; h.routes the sequence of the Route    *)
(* objects: first the Routes of the file, then the copies bound to the     *)
(* Aircraft; h.ents the Aircraft generated, each with the references pos   *)
(* and route it holds.                                                     *)
(***************************************************************************)
\* the number of generate_ac calls and of Aircraft.step calls
MaxScenarioEnts == 2

MaxScenarioSteps == 4

\* the waypoints in the order of the file
WaypointOrder == <<"A", "B", "C", "D", "G", "E", "H", "F">>

\* the reference of the Waypoint object with a given name
WaypointRef(name) == CHOOSE i \in 1..Len(WaypointOrder) : WaypointOrder[i] = name

\* the table name -> Waypoint as the Point objects are now
WaypointsNow(points) ==
    [name \in DOMAIN ScenarioWaypoints |-> points[WaypointRef(name)]]

\* a position attribute that is the start waypoint object itself
PositionShared(points, start_pos) == [points |-> points, ref |-> start_pos]

\* Aircraft.__init__, line 123: self.position = point.Point(start_pos.x, start_pos.y),
\* start_pos the reference of the start waypoint; [points, ref] are the Point
\* objects afterwards and the object bound to self.position
PositionObject(points, start_pos) ==
    [points |-> Append(points, Pt(points[start_pos].x, points[start_pos].y)),
     ref |-> Len(points) + 1]

ScenarioState ==
    [op |-> "scenario",
     points |-> [i \in 1..Len(WaypointOrder) |-> ScenarioWaypoints[WaypointOrder[i]]],
     routes |-> load_json(ScenarioWaypoints, ScenarioRoutes).routes,
     ents |-> << >>, n |-> 0]

InitScenario == EnvInit /\ h = ScenarioState

\* generate_ac(k, _id): po the outcome of the Point(...) of Aircraft.__init__, rc
\* that of routes[key].copy()
ScenarioGenerateEffect(k, spd, po, rc) ==
    h' = [h EXCEPT !.points = po.points,
                   !.routes = rc.heap,
                   !.ents = Append(h.ents,
                               [pos |-> po.ref, route |-> rc.ref,
                                ac |-> AircraftNew(Len(h.ents), po.points[po.ref], spd, 100,
                                                   h.routes[k + 1].init_heading, SCALE,
                                                   rc.heap[rc.ref], Len(h.ents) + 1)])]

ScenarioGenerateCall(k) ==
    /\ Len(h.ents) < MaxScenarioEnts
    /\ \E spd \in EntitySpeeds :
          ScenarioGenerateEffect(k, spd,
                                 PositionObject(h.points, WaypointRef(h.routes[k + 1].start)),
                                 RouteCopyObject(WaypointsNow(h.points), h.routes, k + 1))
    /\ UNCHANGED envVars

\* r: the outcome of the step of Aircraft e; Point.update assigns x and y of the
\* object self.position refers to, Route.update the cursor of the object self.route
\* refers to
ScenarioStepEffect(e, r) ==
    h' = [h EXCEPT !.points = [h.points EXCEPT ![h.ents[e].pos] = r.ac.position],
                   !.routes = [h.routes EXCEPT ![h.ents[e].route] = r.ac.route],
                   !.ents = [h.ents EXCEPT ![e].ac = r.ac],
                   !.n = h.n + 1]

\* ents[e].step(area)
ScenarioStepCall(e) ==
    /\ h.n < MaxScenarioSteps
    /\ ScenarioStepEffect(e, AircraftStep(WaypointsNow(h.points),
                                          [h.ents[e].ac EXCEPT
                                              !.position = h.points[h.ents[e].pos],
                                              !.route = h.routes[h.ents[e].route]],
                                          AREA))
    /\ UNCHANGED envVars

NextScenario ==
    \/ \E k \in 0..(Len(ScenarioRoutes) - 1) : ScenarioGenerateCall(k)
    \/ \E e \in 1..Len(h.ents) : ScenarioStepCall(e)

SpecScenario == InitScenario /\ [][NextScenario]_vars

\* C33: whatever generate_ac and step calls were made, every Waypoint has the
\* position, and so the region, it was loaded with, every Route of the file has its
\* ordered sequence and its start, and the position of each Aircraft is an object
\* of its own: no Waypoint, and not the position of another Aircraft
C33_ScenarioNeverMutated ==
    /\ \A i \in 1..Len(WaypointOrder) :
          /\ h.points[i] = ScenarioWaypoints[WaypointOrder[i]]
          /\ WaypointBounds(h.points[i]) = WaypointBounds(ScenarioWaypoints[WaypointOrder[i]])
    /\ \A k \in 1..Len(ScenarioRoutes) :
          /\ h.routes[k].origional_route = ScenarioRoutes[k]
          /\ h.routes[k].start = ScenarioRoutes[k][1]
    /\ \A e \in 1..Len(h.ents) :
          /\ h.ents[e].pos > Len(WaypointOrder)
          /\ \A f \in 1..Len(h.ents) : f # e => h.ents[f].pos # h.ents[e].pos

\* two Aircraft were generated on the first route and one of them has moved away
\* from the start waypoint, which is where it was loaded and where the other
\* Aircraft still is
C33_Witness ==
    /\ Len(h.ents) = 2
    /\ \A e \in 1..2 : h.routes[h.ents[e].route].start = ScenarioRoutes[1][1]
    /\ h.ents[1].ac.updater >= 1
    /\ h.ents[2].ac.updater = 0
    /\ h.points[h.ents[1].pos] # ScenarioWaypoints[ScenarioRoutes[1][1]]
    /\ h.points[h.ents[2].pos] = ScenarioWaypoints[ScenarioRoutes[1][1]]
    /\ h.points[WaypointRef(ScenarioRoutes[1][1])] = ScenarioWaypoints[ScenarioRoutes[1][1]]

(***************************************************************************)
(* The sampled path (specification SpecPath): the Aircraft of SpecEntity,  *)
(* stepped for more than two periods of the sampling cadence.              *)
(***************************************************************************)
MaxPathSteps == 37

\* ac.step(bounds)
PathStep ==
    /\ h.n < MaxPathSteps
    /\ EntityStepEffect(AircraftStep(waypoints, h.ac, AREA))
    /\ UNCHANGED envVars

NextPath == PathStep

SpecPath == InitEntity /\ [][NextPath]_vars

\* C34: after n steps the path holds n / point_constant points, rounded up; a step
\* appends to it when the number of earlier steps is a multiple of point_constant,
\* and then one point, the position after the movement of this step, at the end;
\* any other step leaves the path as it was
C34_PathCadence ==
    /\ [](Len(h.ac.path) = (h.n + point_constant - 1) \div point_constant)
    /\ [][h.n' = h.n + 1
          => IF h.n % point_constant = 0
             THEN /\ h.ac.path' = Append(h.ac.path, h.ac.position')
                  /\ h.ac.position' = update_position(h.ac).position
             ELSE h.ac.path' = h.ac.path]_vars

\* the nineteenth step has appended the second point, the position it moved the
\* aircraft to, after the point of the first step
C34_Witness ==
    /\ h.n = point_constant + 1
    /\ Len(h.ac.path) = 2
    /\ h.ac.path[2] = h.ac.position
    /\ h.ac.path[1] # h.ac.path[2]

(***************************************************************************)
(* The displacement of a step (specification SpecSpeed): Aircraft without  *)
(* a route, constructed with world scales 1 and 3 and with speeds for      *)
(* which the divisions of the conversion are exact in 1/Q metre.           *)
(***************************************************************************)
MaxSpeedSteps == 3

\* the scale parameter of Aircraft(...), and the requested speeds
SpeedScales == {1, 3}

SpeedSpeeds == {9, 18, 27, 36, 45, 54}

SpeedInputs ==
    {AircraftNew(0, Pt(50 * Q, 50 * Q), spd, 100, hd, scale, NoRoute, 1) :
        spd \in SpeedSpeeds, hd \in EntityHeadings, scale \in SpeedScales}

InitSpeed == EnvInit /\ h \in {EntityState(ac) : ac \in SpeedInputs}

\* ac.step(bounds)
SpeedStep ==
    /\ h.n < MaxSpeedSteps
    /\ EntityStepEffect(AircraftStep(waypoints, h.ac, AREA))
    /\ UNCHANGED envVars

NextSpeed == SpeedStep

SpecSpeed == InitSpeed /\ [][NextSpeed]_vars

\* the distance, in 1/Q metre, between the positions before and after the latest
\* step (the movement is along an axis)
StepDistance == Abs(h.ac.position.x - h.pre.position.x) + Abs(h.ac.position.y - h.pre.position.y)

\* C35: a step moves the aircraft by (min(max_speed, speed) / scale) / 60 metres:
\* the distance times scale times 60 is the capped speed
C35_StepDistancePerScale ==
    h.stepped => StepDistance * h.pre.scale * 60 = Min2(max_speed, h.pre.tas) * Q

(***************************************************************************)
(* get_heading on floating-point numbers and the heading of a new Aircraft *)
(* (specification SpecHeading).  A bearing is [w, e]: w whole degrees plus *)
(* e units of 2^-45 degree, the spacing of the floats between 128 and 256; *)
(* between 256 and 512 the spacing is two units.  A vector is [x, y, ulp]: *)
(* p2 - p1 is (x, y) in 1/Q metre, with its x component ulp units in the   *)
(* last place off x; ulp is not 0 only for vectors due -y otherwise, where *)
(* x / y is about 4e-16 in size, e.g. from (0.1 + 0.2, 0.1) to (0.3, 0).   *)
(***************************************************************************)
MaxHeadingSteps == 2

\* degrees(atan2(x, y)): the integer bearing of an exact vector; for the vector
\* just west of due -y the float next to -180, for the one just east the float
\* next to 180 (atan2 gives the floats next to -pi and to pi)
Atan2DegFloat(v) ==
    IF v.ulp = 0 THEN [w |-> Atan2Deg(v.x, v.y), e |-> 0]
    ELSE IF v.ulp < 0 THEN [w |-> 0 - 180, e |-> 1]
    ELSE [w |-> 180, e |-> 0 - 1]

\* the float nearest to a bearing of offset -1, 0 or 1: when its size is 256 or
\* more an odd offset is not a float, and the tie goes to the neighbour with the
\* even significand, which is the whole number
RoundFloat(b) ==
    IF Abs(b.w) + (IF Sign(b.e) = Sign(b.w) THEN 0 ELSE 0 - 1) >= 256 /\ b.e % 2 = 1
    THEN [w |-> b.w, e |-> 0]
    ELSE b

\* b + 180, and b * -1
FloatPlus180(b) == RoundFloat([w |-> b.w + 180, e |-> b.e])

FloatNegate(b) == [w |-> 0 - b.w, e |-> 0 - b.e]

\* b % 360 of Python: the remainder with the sign of 360, computed as fmod(b, 360)
\* plus 360 when that is negative, and that sum is rounded
FloatMod360(b) ==
    IF b.w % 360 = 0 /\ b.e < 0
    THEN RoundFloat([w |-> 360, e |-> b.e])
    ELSE RoundFloat([w |-> b.w % 360, e |-> b.e])

\* int(b) for b >= 0
FloatInt(b) == IF b.e < 0 /\ b.w > 0 THEN b.w - 1 ELSE b.w

\* get_heading(p1, p2) with p2 - p1 the vector v
get_heading_float(v) ==
    FloatInt(FloatMod360(FloatNegate(FloatPlus180(Atan2DegFloat(v)))))

\* the lengths of the first leg, in metres, and the vectors: along the four axes,
\* and one unit in the last place west and east of due -y
HeadingLengths == {1, 10, 26}

AxisVectors ==
    {[x |-> d[1] * l * Q, y |-> d[2] * l * Q, ulp |-> 0] :
        l \in HeadingLengths, d \in {<<1, 0>>, <<0 - 1, 0>>, <<0, 1>>, <<0, 0 - 1>>}}

NearSouthVectors ==
    {[x |-> 0, y |-> 0 - l * Q, ulp |-> u] : l \in HeadingLengths, u \in {0 - 1, 1}}

HeadingStarts == {Pt(50 * Q, 50 * Q), Pt(30 * Q, 50 * Q)}

\* the first leg of a route, from p1 along v, and the speed drawn for its Aircraft
HeadingState(p1, v, spd) ==
    [op |-> "heading", p1 |-> p1, v |-> v, spd |-> spd, made |-> FALSE, hdg |-> 0,
     ac |-> NoRoute, n |-> 0]

InitHeading ==
    /\ EnvInit
    /\ h \in {HeadingState(p1, v, spd) :
                p1 \in HeadingStarts, v \in AxisVectors \cup NearSouthVectors,
                spd \in EntitySpeeds}

\* hdg: the value of get_heading(start, next_waypoint)
HeadingGenerateEffect(hdg) ==
    h' = [h EXCEPT !.made = TRUE, !.hdg = hdg,
                   !.ac = AircraftNew(0, h.p1, h.spd, 100, hdg, SCALE, NoRoute, 1)]

\* Route.init_route, line 114, and generate_ac: the Aircraft at p1 with the
\* heading of the leg
HeadingGenerate ==
    /\ ~h.made
    /\ HeadingGenerateEffect(get_heading_float(h.v))
    /\ UNCHANGED envVars

\* ac.step(bounds)
HeadingStep ==
    /\ h.made
    /\ h.n < MaxHeadingSteps
    /\ h' = [h EXCEPT !.ac = AircraftStep(waypoints, h.ac, AREA).ac, !.n = h.n + 1]
    /\ UNCHANGED envVars

NextHeading == HeadingGenerate \/ HeadingStep

SpecHeading == InitHeading /\ [][NextHeading]_vars

\* C36: get_heading returns an integer from 0 to 359, and an Aircraft generated
\* with the heading of a first leg along an axis has moved, after its steps, in the
\* direction of that leg and in no other
C36_HeadingTowardsSecondWaypoint ==
    /\ h.made => h.hdg \in 0..359
    /\ (h.made /\ h.v.ulp = 0 /\ h.n >= 1)
       => /\ Sign(h.ac.position.x - h.p1.x) = Sign(h.v.x)
          /\ Sign(h.ac.position.y - h.p1.y) = Sign(h.v.y)

\* the part of C36 on the legs along an axis: the direction of the movement, and
\* get_heading on floats giving what it gives on exact numbers
C36_DirectionOnAxes ==
    (h.made /\ h.v.ulp = 0 /\ h.n >= 1)
    => /\ Sign(h.ac.position.x - h.p1.x) = Sign(h.v.x)
       /\ Sign(h.ac.position.y - h.p1.y) = Sign(h.v.y)
       /\ h.hdg = get_heading(Pt(0, 0), Pt(h.v.x, h.v.y))

(***************************************************************************)
(* The end of a run at max_aircraft (specification Spec)                   *)
(***************************************************************************)
\* the stop test of run has passed: the loop has cleared running at max_aircraft
StoppedAtMax ==
    pc = "loop" /\ ~running /\ max_aircraft > 0 /\ run_aircraft = max_aircraft

ActiveDuringLoop(acs) == acs

\* Environment.step, lines 231-237: [aircraft, raised], the aircraft moved and
\* collision-checked on the distance matrix taken before the movement
MovedAndChecked(dist_matrix, st) ==
    IF st.raised THEN [aircraft |-> st.aircraft, raised |-> TRUE]
    ELSE [aircraft |-> check_collisions(st.aircraft, dist_matrix, min_sep), raised |-> FALSE]

EnvStepToUpdateActive(W, acs, bounds) ==
    MovedAndChecked(get_distance_matrix(acs), StepAll(W, acs, bounds, 1))

NothingSeen == [stage |-> "none", gen |-> {}, term |-> {}, active |-> {},
                from |-> "idle", to |-> "idle"]

InitReader ==
    /\ waypoints = ScenarioWaypoints
    /\ routes = load_json(ScenarioWaypoints, SpawnRoutes).routes
    /\ aircraft = << >>
    /\ terminated = << >>
    /\ running = FALSE
    /\ ran = FALSE
    /\ pc = "idle"
    /\ max_aircraft = 0
    /\ run_aircraft = 0
    /\ run_step = 0
    /\ timer = 0
    /\ next_ac = << >>
    /\ created = 0
    /\ ticks = 0
    /\ last = NoStep
    /\ h = [op |-> "reader", view |-> << >>, new_active |-> << >>, i |-> 1,
            term0 |-> << >>, generated |-> {}, seen |-> NothingSeen]

\* run, lines 208-219, and step, lines 231-239 up to the call of update_active: sp
\* is the outcome of the spawn loop, r that of the movement and the collisions
ReaderTickEffect(sp, r) ==
    /\ aircraft' = IF r.raised THEN r.aircraft ELSE ActiveDuringLoop(r.aircraft)
    /\ next_ac' = sp.next_ac
    /\ run_aircraft' = sp.count
    /\ created' = sp.serial
    /\ pc' = IF r.raised THEN "crashed" ELSE "update_active"
    /\ h' = [h EXCEPT !.view = r.aircraft, !.new_active = << >>, !.i = 1,
                      !.term0 = terminated,
                      !.generated = h.generated \cup Keys(sp.aircraft)]
    /\ UNCHANGED <<terminated, ticks, last, run_step, timer>>

ReaderTickSpawned(sp) ==
    ReaderTickEffect(sp, EnvStepToUpdateActive(waypoints, sp.aircraft, AREA))

ReaderTick ==
    /\ pc = "loop"
    /\ running
    /\ ~(max_aircraft > 0 /\ run_aircraft = max_aircraft)
    /\ ticks < MaxTicks
    /\ LET due == {i \in 1..Len(next_ac) : next_ac[i] = timer}
       IN  /\ created + Cardinality(due) <= MaxCreated
           /\ \E spds \in [due -> SpdRange], alts \in [due -> AltRange],
                 ds \in [due -> DelayChoices] :
                 ReaderTickSpawned(SpawnLoop(aircraft, next_ac, run_aircraft, created, 1,
                                             spds, alts, ds))
    /\ UNCHANGED <<waypoints, routes, running, ran, max_aircraft>>

\* update_active, lines 250-254: one iteration of the loop
UpdateActiveIteration ==
    /\ pc = "update_active"
    /\ h.i <= Len(h.view)
    /\ IF h.view[h.i].terminated > 0
       THEN /\ terminated' = DictSet(terminated, h.view[h.i])
            /\ h' = [h EXCEPT !.i = h.i + 1]
       ELSE /\ terminated' = terminated
            /\ h' = [h EXCEPT !.i = h.i + 1,
                              !.new_active = DictSet(h.new_active, h.view[h.i])]
    /\ UNCHANGED <<waypoints, routes, aircraft, running, ran, pc, max_aircraft,
                   run_aircraft, run_step, timer, next_ac, created, ticks, last>>

\* update_active, line 255, and run, lines 220-223
UpdateActiveAssign ==
    /\ pc = "update_active"
    /\ h.i > Len(h.view)
    /\ aircraft' = h.new_active
    /\ ticks' = ticks + 1
    /\ run_step' = (run_step + 1) % FPS
    /\ timer' = IF (run_step + 1) % FPS = 0 THEN timer + 1 ELSE timer
    /\ pc' = "loop"
    /\ UNCHANGED <<waypoints, routes, terminated, running, ran, max_aircraft, run_aircraft,
                   next_ac, created, last, h>>

\* draw_objects, lines 322-325, and draw_old_paths, line 343: the frame reaches
\* the key 'terminated' and takes the items of the terminated mapping
DrawOldPaths ==
    /\ h.seen.stage # "terminated"
    /\ h' = [h EXCEPT !.seen = [stage |-> "terminated", gen |-> h.generated,
                                term |-> Keys(terminated), active |-> {},
                                from |-> pc, to |-> pc]]
    /\ UNCHANGED envVars

\* draw_objects, lines 322-327: the frame reaches the key 'aircraft' and goes over
\* the mapping objects['aircraft'] is bound to by then
DrawAircraft ==
    /\ h.seen.stage = "terminated"
    /\ h' = [h EXCEPT !.seen.stage = "drawn", !.seen.active = Keys(aircraft),
                      !.seen.to = pc]
    /\ UNCHANGED envVars

NextReader ==
    \/ \E m \in MaxAircraftChoices : RunCall(m)
    \/ RunStart
    \/ RunReturn
    \/ RunStop
    \/ ReaderTick
    \/ UpdateActiveIteration
    \/ UpdateActiveAssign
    \/ DrawOldPaths
    \/ DrawAircraft

SpecReader == InitReader /\ [][NextReader]_vars

C38_InOneMappingAtEveryPoint ==
    /\ h.generated \subseteq (Keys(aircraft) \cup Keys(terminated))
    /\ (pc = "update_active" /\ h.i > Len(h.view))
       => [aircraft |-> h.new_active, terminated |-> terminated]
            = update_active(h.view, h.term0)

\* a frame read both mappings while update_active was between two iterations of
\* its loop, and found an identity in both
C38_SeenInBoth ==
    /\ pc = "update_active"
    /\ h.seen.stage = "drawn"
    /\ h.seen.from = "update_active"
    /\ h.seen.term \cap h.seen.active # {}
    /\ h.seen.term \cap h.seen.active \cap Keys(h.term0) = {}

====
